---------------------------- MODULE Spec2Model ----------------------------
(***************************************************************************)
(* Auto-rename bot: the file job pipeline (file_manager.py), the per-user  *)
(* conversation state machine (bot/handlers.py) and the storage they use   *)
(* (bot/database.py).                                                      *)
(*                                                                         *)
(* Text is modelled as sequences of one-character strings, so that the     *)
(* string functions of the program (sanitize_filename, os.path.splitext,   *)
(* str.replace, ...) are computed as the code computes them.               *)
(***************************************************************************)
EXTENDS Integers, Sequences, FiniteSets, TLC

(***************************************************************************)
(* Bounds of the model                                                     *)
(***************************************************************************)
\* number of file jobs that may be started in one behaviour
MaxJobs == 2
\* number of updates (messages, button presses) the bot handles in one
\* behaviour
MaxUpdates == 3
\* number of times the wall clock may advance in one behaviour
MaxTicks == 1

(***************************************************************************)
(* Text helpers                                                            *)
(***************************************************************************)
Max(S) == CHOOSE x \in S : \A y \in S : y <= x

Min(S) == CHOOSE x \in S : \A y \in S : x <= y

\* s.rfind(c), 1-based, 0 when absent
LastIndexOf(s, c) ==
    LET I == {i \in 1..Len(s) : s[i] = c}
    IN  IF I = {} THEN 0 ELSE Max(I)

\* s.endswith(t)
EndsWith(s, t) ==
    /\ Len(t) <= Len(s)
    /\ SubSeq(s, Len(s) - Len(t) + 1, Len(s)) = t

\* s.startswith(t)
StartsWith(s, t) ==
    /\ Len(t) <= Len(s)
    /\ SubSeq(s, 1, Len(t)) = t

UpperCase ==
    <<"A", "B", "C", "D", "E", "F", "G", "H", "I", "J", "K", "L", "M", "N", "O", "P", "Q", "R", "S", "T", "U", "V", "W", "X", "Y", "Z">>

LowerCase ==
    <<"a", "b", "c", "d", "e", "f", "g", "h", "i", "j", "k", "l", "m", "n", "o", "p", "q", "r", "s", "t", "u", "v", "w", "x", "y", "z">>

UpperToLower ==
    [c \in {UpperCase[i] : i \in 1..Len(UpperCase)} |->
        LowerCase[CHOOSE i \in 1..Len(UpperCase) : UpperCase[i] = c]]

\* str.lower()
Lower(s) ==
    [i \in 1..Len(s) |->
        IF s[i] \in DOMAIN UpperToLower THEN UpperToLower[s[i]] ELSE s[i]]

DigitChar == <<"0", "1", "2", "3", "4", "5", "6", "7", "8", "9">>

\* str(n) for a natural number n
RECURSIVE IntToStr(_)
IntToStr(n) ==
    IF n < 10 THEN <<DigitChar[n + 1]>>
    ELSE IntToStr(n \div 10) \o <<DigitChar[(n % 10) + 1]>>

\* where pat occurs in s
Occurrences(s, pat) ==
    {i \in 1..(Len(s) - Len(pat) + 1) : SubSeq(s, i, i + Len(pat) - 1) = pat}

\* s.replace(pat, rep): non-overlapping occurrences, left to right
RECURSIVE Replace(_, _, _)
Replace(s, pat, rep) ==
    IF pat = <<>> \/ Occurrences(s, pat) = {} THEN s
    ELSE LET first == Min(Occurrences(s, pat))
         IN  SubSeq(s, 1, first - 1) \o rep
                 \o Replace(SubSeq(s, first + Len(pat), Len(s)), pat, rep)

\* s.strip(chars)
RECURSIVE LStrip(_, _)
LStrip(s, chars) ==
    IF s # <<>> /\ Head(s) \in chars THEN LStrip(Tail(s), chars) ELSE s

RECURSIVE RStrip(_, _)
RStrip(s, chars) ==
    IF s # <<>> /\ s[Len(s)] \in chars
    THEN RStrip(SubSeq(s, 1, Len(s) - 1), chars)
    ELSE s

Strip(s, chars) == RStrip(LStrip(s, chars), chars)

\* re.sub(r'[ _]+', '_', s): the first character of a run of blanks and
\* underscores becomes an underscore, the others go
CollapseSeparators(s) ==
    LET marked == [i \in 1..Len(s) |->
                      IF s[i] \in {" ", "_"}
                      THEN <<"_", i = 1 \/ s[i - 1] \notin {" ", "_"}>>
                      ELSE <<s[i], TRUE>>]
        kept   == SelectSeq(marked, LAMBDA m : m[2])
    IN  [i \in 1..Len(kept) |-> kept[i][1]]

\* os.path.splitext(p): <<root, ext>>
splitext(p) ==
    LET sep == LastIndexOf(p, "/")
        dot == LastIndexOf(p, ".")
    IN  IF dot > sep /\ \E k \in (sep + 1)..(dot - 1) : p[k] # "."
        THEN <<SubSeq(p, 1, dot - 1), SubSeq(p, dot, Len(p))>>
        ELSE <<p, <<>>>>

\* FileUtils.get_file_extension
get_file_extension(filename) ==
    IF filename = <<>> THEN <<>> ELSE Lower(splitext(filename)[2])

InvalidChars == {"<", ">", ":", "\"", "/", "\\", "|", "?", "*"}

UnnamedFile == <<"u", "n", "n", "a", "m", "e", "d", "_", "f", "i", "l", "e">>

\* the stem length TextUtils.sanitize_filename keeps
MaxStemLen == 200

\* TextUtils.sanitize_filename
sanitize_filename(filename) ==
    IF filename = <<>> THEN UnnamedFile
    ELSE LET replaced == [i \in 1..Len(filename) |->
                            IF filename[i] \in InvalidChars THEN "_" ELSE filename[i]]
             stripped == Strip(CollapseSeparators(replaced), {" ", "."})
             nonempty == IF stripped = <<>> THEN UnnamedFile ELSE stripped
             parts    == splitext(nonempty)
             name     == IF Len(parts[1]) > MaxStemLen
                         THEN SubSeq(parts[1], 1, MaxStemLen)
                         ELSE parts[1]
         IN  name \o parts[2]

(***************************************************************************)
(* Text constants of the program                                           *)
(***************************************************************************)
VideoExtensions ==
    {<<".", "m", "p", "4">>, <<".", "a", "v", "i">>, <<".", "m", "k", "v">>, <<".", "m", "o", "v">>, <<".", "w", "m", "v">>, <<".", "f", "l", "v">>, <<".", "w", "e", "b", "m">>}

AudioExtensions ==
    {<<".", "m", "p", "3">>, <<".", "f", "l", "a", "c">>, <<".", "a", "a", "c">>, <<".", "o", "g", "g">>, <<".", "w", "a", "v">>, <<".", "m", "4", "a">>}

\* a Python dict: a function whose domain is the set of keys present
DictGet(d, key, default) == IF key \in DOMAIN d THEN d[key] ELSE default

\* dict.update
DictUpdate(d, e) ==
    [k \in (DOMAIN d) \cup (DOMAIN e) |-> IF k \in DOMAIN e THEN e[k] ELSE d[k]]

EmptyDict == [k \in {} |-> <<>>]

\* f"{n:02d}"
TwoDigits(n) == IF n < 10 THEN <<"0">> \o IntToStr(n) ELSE IntToStr(n)

\* TimeUtils.format_duration (whole seconds)
format_duration(seconds) ==
    IF seconds <= 0 THEN <<"0", ":", "0", "0">>
    ELSE LET hours   == seconds \div 3600
             minutes == (seconds % 3600) \div 60
             secs    == seconds % 60
         IN  IF hours > 0
             THEN IntToStr(hours) \o <<":">> \o TwoDigits(minutes) \o <<":">> \o TwoDigits(secs)
             ELSE IntToStr(minutes) \o <<":">> \o TwoDigits(secs)

SizeNames == <<<<"B">>, <<"K", "B">>, <<"M", "B">>, <<"G", "B">>, <<"T", "B">>>>

RECURSIVE Pow1024(_)
Pow1024(i) == IF i = 0 THEN 1 ELSE 1024 * Pow1024(i - 1)

\* the index of the unit FileUtils.format_file_size stops at
RECURSIVE SizeUnit(_, _)
SizeUnit(size_bytes, i) ==
    IF size_bytes >= 1024 * Pow1024(i) /\ i < Len(SizeNames) - 1
    THEN SizeUnit(size_bytes, i + 1)
    ELSE i

\* FileUtils.format_file_size: f"{size_bytes:.1f} {unit}"
format_file_size(size_bytes) ==
    IF size_bytes = 0 THEN <<"0", " ", "B">>
    ELSE LET i      == SizeUnit(size_bytes, 0)
             tenths == (2 * 10 * size_bytes + Pow1024(i)) \div (2 * Pow1024(i))
         IN  IntToStr(tenths \div 10) \o <<".">> \o IntToStr(tenths % 10)
                 \o <<" ">> \o SizeNames[i + 1]

S_title == <<"t", "i", "t", "l", "e">>
S_artist == <<"a", "r", "t", "i", "s", "t">>
S_author == <<"a", "u", "t", "h", "o", "r">>
S_album == <<"a", "l", "b", "u", "m">>
S_genre == <<"g", "e", "n", "r", "e">>
S_year == <<"y", "e", "a", "r">>
S_audio == <<"a", "u", "d", "i", "o">>
S_video == <<"v", "i", "d", "e", "o">>
S_codec == <<"c", "o", "d", "e", "c">>
S_resolution == <<"r", "e", "s", "o", "l", "u", "t", "i", "o", "n">>
S_duration == <<"d", "u", "r", "a", "t", "i", "o", "n">>
S_size == <<"s", "i", "z", "e">>

Placeholder(name) == <<"{">> \o name \o <<"}">>

\* the variables of FileManager.generate_filename, in the order of the dict
TemplateVariables(file_info) ==
    << <<S_title, DictGet(file_info, "title", <<"U", "n", "t", "i", "t", "l", "e", "d">>)>>,
       <<S_artist, DictGet(file_info, "artist", <<"U", "n", "k", "n", "o", "w", "n", " ", "A", "r", "t", "i", "s", "t">>)>>,
       <<S_author, DictGet(file_info, "artist", <<"U", "n", "k", "n", "o", "w", "n", " ", "A", "u", "t", "h", "o", "r">>)>>,
       <<S_album, DictGet(file_info, "album", <<"U", "n", "k", "n", "o", "w", "n", " ", "A", "l", "b", "u", "m">>)>>,
       <<S_genre, DictGet(file_info, "genre", <<"U", "n", "k", "n", "o", "w", "n", " ", "G", "e", "n", "r", "e">>)>>,
       <<S_year, DictGet(file_info, "year", <<"U", "n", "k", "n", "o", "w", "n", " ", "Y", "e", "a", "r">>)>>,
       <<S_audio, IF DictGet(file_info, "type", "") = "audio"
                  THEN IntToStr(DictGet(file_info, "bitrate", 0)) \o <<"k", "b", "p", "s">>
                  ELSE <<>> >>,
       <<S_video, IF DictGet(file_info, "type", "") = "video"
                  THEN DictGet(file_info, "resolution", <<>>)
                  ELSE <<>> >>,
       <<S_codec, DictGet(file_info, "codec", <<>>)>>,
       <<S_resolution, DictGet(file_info, "resolution", <<>>)>>,
       <<S_duration, format_duration(DictGet(file_info, "duration", 0))>>,
       <<S_size, format_file_size(DictGet(file_info, "size", 0))>> >>

\* the loop "for var, value in variables.items(): filename = filename.replace(...)"
RECURSIVE ReplaceVariables(_, _, _)
ReplaceVariables(filename, variables, i) ==
    IF i > Len(variables) THEN filename
    ELSE ReplaceVariables(
             Replace(filename, Placeholder(variables[i][1]), variables[i][2]),
             variables, i + 1)

\* generate_filename without "if not filename.lower().endswith(...)": the
\* extension is never appended
generate_filename_bare(file_info, format_template) ==
    sanitize_filename(ReplaceVariables(format_template,
                                       TemplateVariables(file_info), 1))

\* FileManager.generate_filename
generate_filename(file_info, format_template) ==
    LET filename     == sanitize_filename(
                            ReplaceVariables(format_template,
                                             TemplateVariables(file_info), 1))
        original_ext == DictGet(file_info, "extension", <<>>)
    IN  IF ~EndsWith(Lower(filename), Lower(original_ext))
        THEN filename \o original_ext
        ELSE filename

(***************************************************************************)
(* State                                                                   *)
(***************************************************************************)
VARIABLES
    now,              \* time.time(), whole seconds
    ticks,            \* how often the clock has advanced
    fs,               \* DOWNLOAD_PATH: file name -> the file stored under it
    jobs,             \* the process_file / process_file_with_name activations
    started,          \* how many jobs have been started so far
    file_history,     \* table file_history, in insertion order
    users,            \* tables users and user_settings: user_id -> row
    user_states,      \* BotHandlers.user_states
    processing_files, \* BotHandlers.processing_files
    rate_limits,      \* table rate_limits: user_id -> row
    updates,          \* how many updates the bot has handled so far
    chat,             \* the status message and the files sent, per user
    last,             \* the last update handled: who sent it and the reply
    admin_states,     \* AdminHandlers.admin_states
    dispatch,         \* the activation of send_broadcast / handle_broadcast_message
    outbox,           \* what a dispatch or a fan-out asked of the transport, in order
    dump_channels,    \* get_dump_channels(): the active channels, newest first
    fanout,           \* the activation of forward_to_dump_channels
    windows           \* per user, the calls of check_rate_limit since the window opened

vars == <<now, ticks, fs, jobs, started, file_history, users, user_states,
          processing_files, rate_limits, updates, chat, last,
          admin_states, dispatch, outbox, dump_channels, fanout, windows>>

\* The slots for job coroutines.  The application is built without
\* concurrent_updates (main.py), so updates are handled one after the other
\* and one job coroutine exists at a time.
JobIds == {1}

\* Telegram user ids; Config.OWNER_ID is one of them
Users == {1, 2}

NoUser == 0

\* nothing has been shown to a user yet
NoChat == [status |-> "none", sent |-> <<>>]

\* no update has been handled yet
NoUpdate == [user |-> NoUser, kind |-> "none", from |-> "none", reply |-> "none"]

\* no broadcast is being dispatched
NoDispatch ==
    [pc |-> "idle", entry |-> "none", admin |-> NoUser, all_users |-> <<>>,
     i |-> 0, success_count |-> 0, failed_count |-> 0]

\* forward_to_dump_channels is not running
NoFanout == [pc |-> "idle", channels |-> <<>>, i |-> 0, reported |-> "none"]

(***************************************************************************)
(* Files a user can upload: name, declared size, and what the probes       *)
(* (mutagen tags, ffmpeg / mutagen stream info) find in the content.       *)
(***************************************************************************)
S_T == <<"T">>

S_R == <<"R">>

File_a_mp3 == <<"a", ".", "m", "p", "3">>

File_a_MP4 == <<"a", ".", "M", "P", "4">>

\* an mp3 with title and artist tags
TaggedAudio ==
    [file_name |-> File_a_mp3, file_size |-> 2048, file_type |-> "document",
     tags |-> [k \in {"title", "artist"} |-> IF k = "title" THEN S_T ELSE S_R],
     probe |-> [k \in {"bitrate"} |-> 128]]

\* a video without tags whose container cannot be probed
PlainVideo ==
    [file_name |-> File_a_MP4, file_size |-> 1, file_type |-> "video",
     tags |-> EmptyDict, probe |-> EmptyDict]

Uploads == {TaggedAudio, PlainVideo}

NoFile ==
    [file_name |-> <<>>, file_size |-> 0, file_type |-> "none", tags |-> EmptyDict, probe |-> EmptyDict]

T_title == Placeholder(S_title)

Templates == {T_title}

\* names a caller passes to process_file_with_name
CustomNames == {<<"T", ".", "m", "p", "3">>}

(***************************************************************************)
(* FileManager: the pieces of a job                                        *)
(***************************************************************************)
\* FileManager.get_file_type_info: the type-specific keys for a file
get_file_type_info(file_path, content) ==
    LET ext == get_file_extension(file_path)
    IN  IF ext \in VideoExtensions
        THEN DictUpdate([k \in {"type"} |-> "video"], content.probe)
        ELSE IF ext \in AudioExtensions
             THEN DictUpdate([k \in {"type"} |-> "audio"], content.probe)
             ELSE [k \in {"type"} |-> "document"]

\* FileManager.get_file_info_detailed on the directory dir
get_file_info_detailed(dir, file_path) ==
    IF file_path \notin DOMAIN dir
    THEN \* os.stat raises: the except branch
         [k \in {"title", "filename"} |->
             IF k = "title"
             THEN <<"U", "n", "k", "n", "o", "w", "n", " ", "F", "i", "l", "e">>
             ELSE file_path]
    ELSE LET content   == dir[file_path].content
             base_info == [k \in {"filename", "size", "extension", "type"} |->
                              CASE k = "filename"  -> file_path
                                [] k = "size"      -> content.file_size
                                [] k = "extension" -> get_file_extension(file_path)
                                [] k = "type"      -> "unknown"]
             typed     == DictUpdate(base_info, get_file_type_info(file_path, content))
             tagged    == DictUpdate(typed, content.tags)
         IN  IF "title" \notin DOMAIN tagged \/ tagged["title"] = <<>>
             THEN DictUpdate(tagged, [k \in {"title"} |-> splitext(file_path)[1]])
             ELSE tagged

\* download_file: f"{timestamp}_{safe_name}"
DownloadPath(timestamp, file_name) ==
    LET ts            == IntToStr(timestamp)
        original_name == IF file_name # <<>> THEN file_name
                         ELSE <<"f", "i", "l", "e", "_">> \o ts
    IN  ts \o <<"_">> \o sanitize_filename(original_name)

\* rename_file: the loop that looks for a name not in use
RECURSIVE UniqueName(_, _, _, _, _)
UniqueName(existing, base_name, ext, new_name, counter) ==
    IF new_name \in existing
    THEN UniqueName(existing, base_name, ext,
                    base_name \o <<"_">> \o IntToStr(counter) \o ext, counter + 1)
    ELSE new_name

\* rename_file without the loop: the requested name is taken as it is
RenameTargetAsRequested(existing, new_name) == new_name

\* rename_file: the path the file is renamed to
RenameTarget(existing, new_name) ==
    LET parts == splitext(new_name)
    IN  UniqueName(existing, parts[1], parts[2], new_name, 1)

\* process_file_with_name: sanitize the custom name, add the extension
ManualFilename(custom_name, file_name) ==
    LET safe_filename == sanitize_filename(custom_name)
        original_ext  == get_file_extension(file_name)
    IN  IF ~EndsWith(Lower(safe_filename), Lower(original_ext))
        THEN safe_filename \o original_ext
        ELSE safe_filename

(***************************************************************************)
(* FileManager.process_file / process_file_with_name as a coroutine.       *)
(* A job's pc names the statement it is at; the pcs in AwaitPcs are the    *)
(* awaits on the transport, where other coroutines may run.  Everything    *)
(* between two such awaits runs without interruption (asyncio).            *)
(***************************************************************************)
NoUserData == [user_id |-> NoUser, custom_format |-> <<>>, auto_thumbnail |-> FALSE]

NoResult ==
    [success |-> FALSE, error |-> "none", file_path |-> <<>>, filename |-> <<>>]

InitialJob ==
    [pc |-> "idle", id |-> 0, caller |-> "none", entry |-> "none", user |-> NoUser,
     file_obj |-> NoFile, custom_name |-> <<>>, user_data |-> NoUserData,
     start_time |-> 0, file_path |-> <<>>, file_info |-> EmptyDict,
     new_filename |-> <<>>, renamed_path |-> <<>>, stages |-> <<>>,
     result |-> NoResult, failed_in |-> "none", download |-> "none",
     rename |-> "none", tagging |-> "none", recording |-> "none",
     reporter |-> "none", downloaded_size |-> "none", reports |-> 0]

\* the stage of the pipeline a statement belongs to
StageOf(pc) ==
    CASE pc \in {"cb_download", "get_file", "download_to_drive"} -> "Downloading"
      [] pc \in {"cb_extract", "inspect"}                        -> "Inspecting"
      [] pc \in {"cb_generate", "compose"}                       -> "Composing"
      [] pc \in {"cb_rename", "rename"}                          -> "Renaming"
      [] pc \in {"cb_metadata", "tag"}                           -> "Tagging"
      [] pc = "record"                                           -> "Recording"
      [] OTHER                                                   -> "none"

\* process_file: the statement after pc when nothing fails
NextPcAuto(pc, auto_thumbnail) ==
    CASE pc = "cb_download"       -> "get_file"
      [] pc = "get_file"          -> "download_to_drive"
      [] pc = "download_to_drive" -> "cb_extract"
      [] pc = "cb_extract"        -> "inspect"
      [] pc = "inspect"           -> "cb_generate"
      [] pc = "cb_generate"       -> "compose"
      [] pc = "compose"           -> "cb_rename"
      [] pc = "cb_rename"         -> "rename"
      [] pc = "rename"            -> IF auto_thumbnail THEN "cb_metadata" ELSE "record"
      [] pc = "cb_metadata"       -> "tag"
      [] pc = "tag"               -> "record"
      [] pc = "record"            -> "returned"

\* process_file_with_name swapped to the order of process_file
NextPcManualInspectFirst(pc, auto_thumbnail) ==
    CASE pc = "download_to_drive" -> "inspect"
      [] pc = "inspect"           -> "compose"
      [] pc = "compose"           -> "cb_rename"
      [] pc = "rename"            -> IF auto_thumbnail THEN "cb_metadata" ELSE "record"
      [] OTHER                    -> NextPcAuto(pc, auto_thumbnail)

\* process_file_with_name: the statement after pc when nothing fails
NextPcManual(pc, auto_thumbnail) ==
    CASE pc = "cb_download"       -> "get_file"
      [] pc = "get_file"          -> "download_to_drive"
      [] pc = "download_to_drive" -> "compose"
      [] pc = "compose"           -> "cb_rename"
      [] pc = "cb_rename"         -> "rename"
      [] pc = "rename"            -> "inspect"
      [] pc = "inspect"           -> IF auto_thumbnail THEN "cb_metadata" ELSE "record"
      [] pc = "cb_metadata"       -> "tag"
      [] pc = "tag"               -> "record"
      [] pc = "record"            -> "returned"

NextPc(job) ==
    IF job.entry = "auto"
    THEN NextPcAuto(job.pc, job.user_data.auto_thumbnail)
    ELSE NextPcManual(job.pc, job.user_data.auto_thumbnail)

\* control reaches statement pc; entering a new stage is logged in stages
Goto(job, pc) ==
    [job EXCEPT
        !.pc = pc,
        !.stages = IF StageOf(pc) # "none"
                      /\ (@ = <<>> \/ @[Len(@)] # StageOf(pc))
                   THEN Append(@, StageOf(pc))
                   ELSE @]

Proceed(job) == Goto(job, NextPc(job))

\* return {'success': False, 'error': ...}
ReturnFailure(job, error, failed_in) ==
    [job EXCEPT
        !.pc = "returned",
        !.result = [success |-> FALSE, error |-> error,
                    file_path |-> <<>>, filename |-> <<>>],
        !.failed_in = failed_in]

\* return {'success': True, 'file_path': renamed_path, 'filename': ...}
ReturnSuccess(job) ==
    [job EXCEPT
        !.pc = "returned",
        !.result = [success |-> TRUE, error |-> "none",
                    file_path |-> job.renamed_path, filename |-> job.new_filename]]

\* download_file returned None and the job goes on all the same
AfterDownloadUnchecked(job, downloaded) == Proceed(job)

\* "if not file_path: return {'success': False, ...}"
AfterDownload(job, downloaded) ==
    IF downloaded
    THEN Proceed(job)
    ELSE ReturnFailure(job, "Failed to download file", "download")

\* the state a coroutine reads and writes while it runs
State ==
    [now |-> now, fs |-> fs, jobs |-> jobs, started |-> started,
     file_history |-> file_history, users |-> users,
     user_states |-> user_states, processing_files |-> processing_files,
     rate_limits |-> rate_limits, chat |-> chat, last |-> last,
     admin_states |-> admin_states, dispatch |-> dispatch, outbox |-> outbox,
     dump_channels |-> dump_channels, fanout |-> fanout, windows |-> windows]

\* the state a coroutine leaves behind when it reaches its next await
Commit(st) ==
    /\ fs' = st.fs
    /\ jobs' = st.jobs
    /\ started' = st.started
    /\ file_history' = st.file_history
    /\ users' = st.users
    /\ user_states' = st.user_states
    /\ processing_files' = st.processing_files
    /\ rate_limits' = st.rate_limits
    /\ chat' = st.chat
    /\ last' = st.last
    /\ admin_states' = st.admin_states
    /\ dispatch' = st.dispatch
    /\ outbox' = st.outbox
    /\ dump_channels' = st.dump_channels
    /\ fanout' = st.fanout
    /\ windows' = st.windows

\* "Get file info": get_file_info_detailed of the downloaded (auto) or the
\* renamed (manual) file
Inspect(st, j) ==
    LET job  == st.jobs[j]
        path == IF job.entry = "auto" THEN job.file_path ELSE job.renamed_path
    IN  [st EXCEPT !.jobs[j] =
            Proceed([job EXCEPT !.file_info = get_file_info_detailed(st.fs, path)])]

\* "Generate new filename" (auto) or "Sanitize custom name" (manual)
Compose(st, j) ==
    LET job  == st.jobs[j]
        name == IF job.entry = "auto"
                THEN generate_filename(job.file_info, job.user_data.custom_format)
                ELSE ManualFilename(job.custom_name, job.file_obj.file_name)
    IN  [st EXCEPT !.jobs[j] = Proceed([job EXCEPT !.new_filename = name])]

\* "if not renamed_path: return {'success': False, ...}"
AfterRename(job, renamed) ==
    IF renamed
    THEN Proceed(job)
    ELSE ReturnFailure(job, "Failed to rename file", "rename")

\* rename_file; os_rename is what os.rename does when the source exists
RenameFile(st, j, os_rename) ==
    LET job      == st.jobs[j]
        src      == job.file_path
        new_path == RenameTarget(DOMAIN st.fs, job.new_filename)
    IN  IF src \notin DOMAIN st.fs \/ os_rename = "OSError"
        THEN [st EXCEPT !.jobs[j] =
                 AfterRename([job EXCEPT !.rename = "failed"], FALSE)]
        ELSE [st EXCEPT
                 !.fs = [q \in (DOMAIN st.fs \ {src}) \cup {new_path} |->
                            IF q = new_path THEN st.fs[src] ELSE st.fs[q]],
                 !.jobs[j] = AfterRename([job EXCEPT !.rename = "ok",
                                                     !.renamed_path = new_path],
                                         TRUE)]

\* process_metadata: returns True or False, never raises, keeps the file
process_metadata(file_path, writer) ==
    LET file_ext == get_file_extension(file_path)
    IN  IF file_ext \in VideoExtensions \cup AudioExtensions
        THEN writer
        ELSE "ok"

\* "Process metadata if enabled"
Tag(st, j, writer) ==
    LET job == st.jobs[j]
    IN  [st EXCEPT !.jobs[j] =
            Proceed([job EXCEPT
                        !.tagging = process_metadata(job.renamed_path, writer)])]

\* add_file_history without the INSERT: only the statistics are updated
add_file_history_without_insert(st, user_id, original_name, new_name, file_size, file_type, processing_time) ==
    [st EXCEPT
        !.users = [u \in DOMAIN @ |->
                      IF u = user_id
                      THEN [@[u] EXCEPT !.files_renamed = @ + 1,
                                        !.total_size = @ + file_size]
                      ELSE @[u]]]

\* Database.add_file_history with a working connection
add_file_history(st, user_id, original_name, new_name, file_size, file_type, processing_time) ==
    [st EXCEPT
        !.file_history = Append(@,
            [user_id |-> user_id, original_name |-> original_name,
             new_name |-> new_name, file_size |-> file_size,
             file_type |-> file_type, processing_time |-> processing_time]),
        !.users = [u \in DOMAIN @ |->
                      IF u = user_id
                      THEN [@[u] EXCEPT !.files_renamed = @ + 1,
                                        !.total_size = @ + file_size]
                      ELSE @[u]]]

\* "Record in database" and the return that follows it.  db is what the
\* storage does: "ok", "error" (raised inside add_file_history's try, rolled
\* back, False returned) or "connect_error" (get_connection raises before the
\* try, so the exception leaves add_file_history)
RecordOutcome(job, db) ==
    IF db = "connect_error"
    THEN ReturnFailure([job EXCEPT !.recording = db], "exception", "record")
    ELSE ReturnSuccess([job EXCEPT !.recording = db])

Record(st, j, db) ==
    LET job     == st.jobs[j]
        user_id == job.user_data.user_id
        stored  == IF user_id # NoUser /\ db = "ok"
                   THEN add_file_history(st, user_id,
                            IF job.file_obj.file_name # <<>>
                            THEN job.file_obj.file_name
                            ELSE <<"u", "n", "k", "n", "o", "w", "n">>,
                            job.new_filename, job.file_obj.file_size,
                            job.file_obj.file_type, st.now - job.start_time)
                   ELSE st
    IN  [stored EXCEPT !.jobs[j] =
            IF user_id = NoUser
            THEN ReturnSuccess([job EXCEPT !.recording = "skipped"])
            ELSE RecordOutcome(job, db)]

\* what the environment does to the statements that run without an await
SyncOutcomes ==
    [os_rename : {"ok", "OSError"},
     writer    : {"ok", "failed"},
     db        : {"ok", "error", "connect_error"}]

SyncPcs == {"inspect", "compose", "rename", "tag", "record"}

\* one statement that runs without an await
SyncStep(st, j, env) ==
    LET pc == st.jobs[j].pc
    IN  CASE pc = "inspect" -> Inspect(st, j)
          [] pc = "compose" -> Compose(st, j)
          [] pc = "rename"  -> RenameFile(st, j, env.os_rename)
          [] pc = "tag"     -> Tag(st, j, env.writer)
          [] pc = "record"  -> Record(st, j, env.db)

\* run job j until its next await
RECURSIVE RunSync(_, _, _)
RunSync(st, j, env) ==
    IF st.jobs[j].pc \in SyncPcs
    THEN RunSync(SyncStep(st, j, env), j, env)
    ELSE st

(***************************************************************************)
(* The awaits of a job                                                     *)
(***************************************************************************)
\* what message.edit_text does when the sink is called
SinkOutcomes == {"ok", "TelegramError", "Exception"}

\* BotHandlers.update_progress: only TelegramError is caught
update_progress(edit) ==
    IF edit = "ok" \/ edit = "TelegramError" THEN "return" ELSE "raise"

ProgressPcs == {"cb_download", "cb_extract", "cb_generate", "cb_rename", "cb_metadata"}

\* await progress_callback(...) returns or raises into process_file's except
ProgressCallback(j) ==
    /\ jobs[j].pc \in ProgressPcs
    /\ \E edit \in SinkOutcomes, env \in SyncOutcomes :
          LET job     == jobs[j]
              resumed == IF update_progress(edit) = "raise"
                         THEN ReturnFailure(job, "exception", "progress")
                         ELSE Proceed(job)
          IN  Commit(RunSync([State EXCEPT !.jobs[j] = resumed], j, env))
    /\ UNCHANGED <<now, ticks, updates>>

\* "if file_obj.file_size and file_obj.file_size > 10 * 1024 * 1024"
ProgressThreshold == 10 * 1024 * 1024

\* progress_task = asyncio.create_task(download_progress()), for a large
\* file: the task starts with downloaded_size = 0
StartReporter(job) ==
    IF job.file_obj.file_size > ProgressThreshold
    THEN [job EXCEPT !.reporter = "loop", !.downloaded_size = "less"]
    ELSE job

\* the places where download_progress can be: at the test of its loop
\* (created, or in asyncio.sleep), or in "await progress_callback(...)"
ReporterRuns == {"loop", "callback"}

\* progress_task.cancel(); a task that has ended stays as it is
CancelReporter(job) ==
    IF job.reporter \in ReporterRuns THEN [job EXCEPT !.reporter = "cancelled"] ELSE job

\* download_file: await file_obj.get_file(), then the path is chosen and the
\* progress task of a large file is created
GetFile(j) ==
    /\ jobs[j].pc = "get_file"
    /\ \E telegram \in {"ok", "error"} :
          LET job     == jobs[j]
              resumed == IF telegram = "error"
                         THEN AfterDownload([job EXCEPT !.download = "failed"], FALSE)
                         ELSE Proceed(StartReporter([job EXCEPT
                                  !.file_path = DownloadPath(now, job.file_obj.file_name)]))
          IN  jobs' = [jobs EXCEPT ![j] = resumed]
    /\ UNCHANGED <<now, ticks, started, fs, file_history, users, user_states,
                   processing_files, rate_limits, updates, chat, last,
                   admin_states, dispatch, outbox, dump_channels, fanout,
                   windows>>

\* download_file: await file.download_to_drive(file_path); a failed download
\* may leave a partial file behind
DownloadToDrive(j) ==
    /\ jobs[j].pc = "download_to_drive"
    /\ \E telegram \in {"ok", "error", "error_partial"}, env \in SyncOutcomes :
          LET job     == jobs[j]
              written == [q \in DOMAIN fs \cup {job.file_path} |->
                             IF q = job.file_path
                             THEN [job |-> job.id, content |-> job.file_obj]
                             ELSE fs[q]]
              resumed == IF telegram = "ok"
                         THEN AfterDownload(CancelReporter([job EXCEPT !.download = "ok"]), TRUE)
                         ELSE AfterDownload([job EXCEPT !.download = "failed"], FALSE)
          IN  Commit(RunSync([State EXCEPT
                                 !.fs = IF telegram = "error" THEN fs ELSE written,
                                 !.jobs[j] = resumed], j, env))
    /\ UNCHANGED <<now, ticks, updates>>

\* time passes
Tick ==
    /\ ticks < MaxTicks
    /\ now' = now + 1
    /\ ticks' = ticks + 1
    /\ UNCHANGED <<fs, jobs, started, file_history, users, user_states,
                   processing_files, rate_limits, updates, chat, last,
                   admin_states, dispatch, outbox, dump_channels, fanout,
                   windows>>

(***************************************************************************)
(* FileManager called directly: any caller, any arguments                  *)
(***************************************************************************)
UserDataArgs ==
    {[user_id |-> 1, custom_format |-> T_title, auto_thumbnail |-> TRUE],
     [user_id |-> NoUser, custom_format |-> T_title, auto_thumbnail |-> FALSE]}

\* a coroutine can be created: the lowest free slot is used
FreeJob(j) ==
    /\ started < MaxJobs
    /\ jobs[j].pc = "idle"
    /\ \A k \in JobIds : k < j => jobs[k].pc # "idle"

\* a call of FileManager.process_file
CallProcessFileOf(j, uploads) ==
    /\ FreeJob(j)
    /\ \E file_obj \in uploads, user_data \in UserDataArgs :
          jobs' = [jobs EXCEPT ![j] =
                      Goto([InitialJob EXCEPT
                               !.id = started + 1,
                               !.caller = "api", !.entry = "auto",
                               !.user = user_data.user_id,
                               !.file_obj = file_obj, !.user_data = user_data,
                               !.start_time = now], "cb_download")]
    /\ started' = started + 1
    /\ UNCHANGED <<now, ticks, fs, file_history, users, user_states,
                   processing_files, rate_limits, updates, chat, last,
                   admin_states, dispatch, outbox, dump_channels, fanout,
                   windows>>

CallProcessFile(j) == CallProcessFileOf(j, Uploads)

\* a call of FileManager.process_file_with_name
CallProcessFileWithName(j) ==
    /\ FreeJob(j)
    /\ \E file_obj \in Uploads, user_data \in UserDataArgs,
          custom_name \in CustomNames :
          jobs' = [jobs EXCEPT ![j] =
                      Goto([InitialJob EXCEPT
                               !.id = started + 1,
                               !.caller = "api", !.entry = "manual",
                               !.user = user_data.user_id,
                               !.file_obj = file_obj, !.user_data = user_data,
                               !.custom_name = custom_name,
                               !.start_time = now], "cb_download")]
    /\ started' = started + 1
    /\ UNCHANGED <<now, ticks, fs, file_history, users, user_states,
                   processing_files, rate_limits, updates, chat, last,
                   admin_states, dispatch, outbox, dump_channels, fanout,
                   windows>>

\* the caller has taken the returned dict; the coroutine is gone
TakeResult(j) ==
    /\ jobs[j].pc = "returned"
    /\ jobs[j].caller = "api"
    /\ jobs' = [jobs EXCEPT ![j] = InitialJob]
    /\ UNCHANGED <<now, ticks, started, fs, file_history, users, user_states,
                   processing_files, rate_limits, updates, chat, last,
                   admin_states, dispatch, outbox, dump_channels, fanout,
                   windows>>

\* a file left in DOWNLOAD_PATH by an earlier run of the bot
OldFile == [job |-> 0, content |-> NoFile]

File_T_mp3 == <<"T", ".", "m", "p", "3">>

File_T_1_mp3 == <<"T", "_", "1", ".", "m", "p", "3">>

InitialDirectory == [q \in {File_T_mp3, File_T_1_mp3} |-> OldFile]

InitFM ==
    /\ now = 0
    /\ ticks = 0
    /\ fs = InitialDirectory
    /\ jobs = [j \in JobIds |-> InitialJob]
    /\ started = 0
    /\ file_history = <<>>
    /\ users = [u \in {} |-> 0]
    /\ user_states = [u \in {} |-> 0]
    /\ processing_files = [u \in {} |-> 0]
    /\ rate_limits = [u \in {} |-> 0]
    /\ updates = 0
    /\ chat = [u \in Users |-> NoChat]
    /\ last = NoUpdate
    /\ admin_states = [u \in {} |-> 0]
    /\ dispatch = NoDispatch
    /\ outbox = <<>>
    /\ dump_channels = <<>>
    /\ fanout = NoFanout
    /\ windows = [u \in {} |-> 0]

NextFM ==
    \/ \E j \in JobIds : CallProcessFile(j)
    \/ \E j \in JobIds : CallProcessFileWithName(j)
    \/ \E j \in JobIds : ProgressCallback(j)
    \/ \E j \in JobIds : GetFile(j)
    \/ \E j \in JobIds : DownloadToDrive(j)
    \/ \E j \in JobIds : TakeResult(j)
    \/ Tick

SpecFM == InitFM /\ [][NextFM]_vars

(***************************************************************************)
(* Storage (bot/database.py) as the handlers use it                        *)
(***************************************************************************)
\* the attributes of sqlite3.Connection that the storage code touches and
\* that exist; rowcount is an attribute of Cursor, not of Connection
ConnectionAttributes == {"execute", "commit", "rollback", "close", "row_factory"}

\* a row of users joined with its row of user_settings, with the defaults of
\* the schema
NewUserRow ==
    [is_banned |-> FALSE, is_admin |-> FALSE, files_renamed |-> 0,
     total_size |-> 0, rename_mode |-> "auto", media_type |-> "document",
     custom_format |-> T_title, auto_thumbnail |-> TRUE]

\* Database.add_user: insert the rows of a new user, keep those of a known one
add_user(table, user_id) ==
    IF user_id \in DOMAIN table
    THEN table
    ELSE [u \in DOMAIN table \cup {user_id} |->
             IF u = user_id THEN NewUserRow ELSE table[u]]

\* Database.is_banned
is_banned(table, user_id) ==
    IF user_id \in DOMAIN table THEN table[user_id].is_banned ELSE FALSE

\* what the SELECT of Database.is_banned meets
LookupOutcomes == {"ok", "read_error"}

\* Database.is_banned as a handler calls it: when the SELECT raises, the
\* except branch answers False
is_banned_under(table, user_id, lookup) ==
    IF lookup = "read_error" THEN FALSE ELSE is_banned(table, user_id)

\* Database.get_user: the settings a job reads, NoUserData for None
get_user(table, user_id) ==
    IF user_id \in DOMAIN table
    THEN [user_id |-> user_id, custom_format |-> table[user_id].custom_format,
          auto_thumbnail |-> table[user_id].auto_thumbnail]
    ELSE NoUserData

\* Database.update_user_settings: the UPDATE is committed, then
\* conn.rowcount raises AttributeError and the except branch returns False
update_user_settings(table, user_id, changes) ==
    [table |-> [u \in DOMAIN table |->
                   IF u = user_id
                   THEN [k \in DOMAIN table[u] |->
                            IF k \in DOMAIN changes THEN changes[k] ELSE table[u][k]]
                   ELSE table[u]],
     success |-> "rowcount" \in ConnectionAttributes]

\* check_rate_limit(user_id, max_requests=5, window_seconds=60)
max_requests == 5

window_seconds == 60

\* what the database does during a call: it works, a SELECT fails, an
\* INSERT / UPDATE / commit fails, or sqlite3.connect fails
StorageOutcomes == {"ok", "read_error", "write_error", "connect_error"}

\* "if result['request_count'] >= max_requests"
AtCeilingLate(row) == row.request_count > max_requests

AtCeiling(row) == row.request_count >= max_requests

\* Database.check_rate_limit at time t: whether the request is allowed, and
\* the table afterwards.  get_connection() is called before the try, so a
\* failing connect leaves the function as an exception; a failure inside
\* the try returns True, and a write that failed is not committed.  The
\* stored window_start is the datetime that fromisoformat reads back.
check_rate_limit(table, user_id, t, db) ==
    LET window_start == t - window_seconds
        Put(row) == [u \in DOMAIN table \cup {user_id} |->
                        IF u = user_id THEN row ELSE table[u]]
        Allowed(written) ==
            [allowed |-> TRUE, raised |-> FALSE,
             table |-> IF db = "write_error" THEN table ELSE written]
    IN  IF db = "connect_error"
        THEN [allowed |-> FALSE, raised |-> TRUE, table |-> table]
        ELSE IF db = "read_error"
        THEN [allowed |-> TRUE, raised |-> FALSE, table |-> table]
        ELSE IF user_id \notin DOMAIN table
        THEN Allowed(Put([request_count |-> 1, window_start |-> t]))
        ELSE IF table[user_id].window_start < window_start
        THEN Allowed(Put([request_count |-> 1, window_start |-> t]))
        ELSE IF AtCeiling(table[user_id])
        THEN [allowed |-> FALSE, raised |-> FALSE, table |-> table]
        ELSE Allowed(Put([table[user_id] EXCEPT !.request_count = @ + 1]))

(***************************************************************************)
(* The conversation layer (bot/handlers.py).  A handler runs from its      *)
(* update to its end without another handler in between; the operators     *)
(* below take the state st it starts in to the state it leaves behind.     *)
(***************************************************************************)
\* the static methods of FileUtils and of TextUtils (bot/utils.py)
FileUtilsMethods ==
    {"format_file_size", "get_file_extension", "is_video_file", "is_audio_file",
     "is_document_file", "is_archive_file", "get_file_type",
     "ensure_directory_exists"}

TextUtilsMethods ==
    {"sanitize_filename", "clean_text", "truncate_text", "extract_words",
     "replace_words", "format_template", "extract_metadata_from_filename"}

\* the keys of the dict process_file and process_file_with_name return on
\* success
ResultKeys ==
    {"success", "file_path", "filename", "file_type", "original_name",
     "file_size", "processing_time"}

\* the keys of the result that the success message is formatted from
FinalTextKeys == {"original_name", "new_name", "file_size", "processing_time"}

\* Config.MAX_FILE_SIZE as the environment sets it, in bytes
MAX_FILE_SIZE == 4096

\* d[key] = value
DictSet(d, key, value) ==
    [k \in DOMAIN d \cup {key} |-> IF k = key THEN value ELSE d[k]]

\* d.pop(key, None)
DictPop(d, key) == [k \in DOMAIN d \ {key} |-> d[k]]

\* self.user_states[user_id].update(entry): the keys of the old entry stay
EnterModeKeepingData(states, u, entry) ==
    DictSet(states, u, DictUpdate(DictGet(states, u, EmptyDict), entry))

\* self.user_states = {user_id: entry}: the entries of the others are lost
EnterModeAlone(states, u, entry) == [v \in {u} |-> entry]

\* self.user_states[user_id] = entry: the old entry is replaced
EnterMode(states, u, entry) == DictSet(states, u, entry)

\* reply_text / edit_message_text with the text named by text
Say(st, u, text) == [st EXCEPT !.last.reply = text]

\* an exception leaves the handler: the application calls error_handler
ErrorHandler(st, u) == Say(st, u, "error_occurred")

\* self.user_states.get(user_id, {}).get('action')
ActionOf(states, u) == DictGet(DictGet(states, u, EmptyDict), "action", "none")

\* the processing message is sent, processing_files is set and the pipeline
\* runs up to its first progress report
StartJob(st, j, u, entry, file_obj, custom_name, user_data, reply) ==
    IF reply # "ok"
    THEN ErrorHandler(st, u)
    ELSE [st EXCEPT
             !.last.reply = "processing",
             !.chat[u] = [status |-> "processing", sent |-> <<>>],
             !.processing_files =
                 DictSet(@, u, [active |-> TRUE, start_time |-> st.now]),
             !.started = @ + 1,
             !.jobs[j] =
                 Goto([InitialJob EXCEPT
                          !.id = st.started + 1,
                          !.caller = "handler", !.entry = entry, !.user = u,
                          !.file_obj = file_obj, !.custom_name = custom_name,
                          !.user_data = user_data, !.start_time = st.now],
                      "cb_download")]

\* BotHandlers.process_file_auto up to its first await inside process_file
process_file_auto(st, j, u, file_obj, user_data, reply) ==
    StartJob(st, j, u, "auto", file_obj, <<>>, user_data, reply)

\* BotHandlers.handle_file.  The handler is registered for documents and
\* videos only, so the "Unsupported file type" branch is not taken; the
\* name of the file is not looked at (FileManager.validate_file has no
\* caller).
handle_file(st, j, u, file_obj, reply, db, lookup) ==
    LET limit == check_rate_limit(st.rate_limits, u, st.now, db)
        st1   == [st EXCEPT !.rate_limits = limit.table]
    IN  IF limit.raised THEN ErrorHandler(st, u)
        ELSE IF ~limit.allowed THEN Say(st1, u, "rate_limited")
        ELSE IF is_banned_under(st1.users, u, lookup) THEN Say(st1, u, "banned")
        ELSE LET st2       == [st1 EXCEPT !.users = add_user(@, u)]
                 user_data == get_user(st2.users, u)
             IN  IF file_obj.file_size > MAX_FILE_SIZE
                 THEN Say(st2, u, "too_large")
                 ELSE IF user_data = NoUserData
                 THEN Say(st2, u, "user_data_not_found")
                 ELSE IF st2.users[u].rename_mode = "manual"
                 THEN Say([st2 EXCEPT !.user_states =
                              EnterMode(@, u,
                                  [action |-> "awaiting_filename",
                                   file_obj |-> file_obj,
                                   file_type |-> file_obj.file_type])],
                          u, "send_filename")
                 ELSE process_file_auto(st2, j, u, file_obj, user_data, reply)

\* BotHandlers.handle_manual_filename.  FileUtils has no clean_filename, so
\* the call raises AttributeError before the try / finally is entered; what
\* follows the call is written as the code has it, with the text taken as
\* the cleaned name.
handle_manual_filename(st, j, u, filename, reply) ==
    LET user_state == DictGet(st.user_states, u, EmptyDict)
        user_data  == get_user(st.users, u)
    IN  IF DOMAIN user_state = {} \/ "file_obj" \notin DOMAIN user_state
        THEN Say(st, u, "no_file_to_rename")
        ELSE IF "clean_filename" \notin FileUtilsMethods
        THEN ErrorHandler(st, u)
        ELSE IF filename = <<>>
        THEN Say(st, u, "invalid_filename")
        ELSE IF user_data = NoUserData
        THEN Say(st, u, "user_data_not_found")
        ELSE StartJob(st, j, u, "manual", user_state.file_obj, filename,
                      user_data, reply)

\* BotHandlers.handle_custom_format.  TextUtils has no
\* is_valid_format_template, so the call raises AttributeError; what follows
\* the call is written as the code has it for a template found valid.
handle_custom_format(st, u, format_text) ==
    IF "is_valid_format_template" \notin TextUtilsMethods
    THEN ErrorHandler(st, u)
    ELSE LET updated == update_user_settings(st.users, u,
                            [custom_format |-> format_text])
         IN  Say([st EXCEPT !.users = updated.table,
                            !.user_states = DictPop(@, u)],
                 u, IF updated.success THEN "format_updated" ELSE "update_failed")

(***************************************************************************)
(* Broadcasts (bot/admin.py, BotHandlers.handle_broadcast_message) and the *)
(* fan-out to the dump channels (BotHandlers.forward_to_dump_channels)     *)
(***************************************************************************)
\* Config.OWNER_ID, read from the environment: the id of one of the users
OWNER_ID == 1

\* "if success_count % 10 == 0"
ProgressEvery == 10

\* Database.is_admin
is_admin(table, user_id) ==
    IF user_id \in DOMAIN table THEN table[user_id].is_admin ELSE FALSE

\* AdminHandlers.is_authorized
is_authorized(table, user_id) ==
    (user_id = OWNER_ID \/ is_admin(table, user_id)) /\ ~is_banned(table, user_id)

\* the rows of a table scan, by rowid (user_id INTEGER PRIMARY KEY)
RECURSIVE Ascending(_)
Ascending(S) ==
    IF S = {} THEN <<>> ELSE <<Min(S)>> \o Ascending(S \ {Min(S)})

\* Database.get_all_users: the users who are not banned; a failing SELECT
\* gives the empty list
get_all_users(table, db) ==
    IF db = "read_error"
    THEN <<>>
    ELSE Ascending({u \in DOMAIN table : ~table[u].is_banned})

\* what a dispatch asked of the transport, with the counters at that time
Event(d, kind, to, outcome) ==
    [kind |-> kind, to |-> to, outcome |-> outcome,
     success |-> d.success_count, failed |-> d.failed_count]

\* the dispatch up to its first await, the message that announces it
StartDispatch(st, u, entry, all_users) ==
    [st EXCEPT !.dispatch = [pc |-> "announce", entry |-> entry, admin |-> u,
                             all_users |-> all_users, i |-> 1,
                             success_count |-> 0, failed_count |-> 0],
               !.outbox = <<>>,
               !.last.reply = "broadcasting"]

\* AdminHandlers.send_broadcast up to its first await.  get_all_users calls
\* get_connection() before its try, so a failing connect raises.
send_broadcast(st, u, message, db) ==
    IF ~is_authorized(st.users, u) THEN Say(st, u, "not_authorized")
    ELSE IF db = "connect_error" THEN ErrorHandler(st, u)
    ELSE LET all_users == get_all_users(st.users, db)
         IN  IF all_users = <<>>
             THEN Say(st, u, "no_users")
             ELSE StartDispatch(st, u, "admin", all_users)

\* AdminHandlers.broadcast_command
broadcast_command(st, u, args, db) ==
    IF ~is_authorized(st.users, u) THEN Say(st, u, "not_authorized")
    ELSE IF args # <<>> THEN send_broadcast(st, u, args, db)
    ELSE Say([st EXCEPT !.admin_states =
                 DictSet(@, u, [state |-> "waiting_broadcast"])],
             u, "send_broadcast_text")

\* BotHandlers.handle_broadcast_message up to its first await; the list of
\* users is read after the announcement, with no other handler in between
handle_broadcast_message(st, u, message, db) ==
    IF db = "connect_error"
    THEN LET begun == StartDispatch(st, u, "handlers", <<>>)
         IN  ErrorHandler([begun EXCEPT
                 !.dispatch.pc = "raised",
                 !.outbox = <<Event(begun.dispatch, "announce", u, "ok")>>], u)
    ELSE StartDispatch(st, u, "handlers", get_all_users(st.users, db))

\* AdminHandlers.get_admin_state(user_id).get('state')
AdminStateOf(states, u) == DictGet(DictGet(states, u, EmptyDict), "state", "none")

\* the for loop takes the next user, or ends
Advance(d) ==
    IF d.i < Len(d.all_users)
    THEN [d EXCEPT !.i = @ + 1, !.pc = "send"]
    ELSE [d EXCEPT !.pc = "report"]

\* after "await context.bot.send_message(...)" returned or raised
AfterSendStopping(d, api) ==
    IF api = "ok"
    THEN [d EXCEPT !.success_count = @ + 1,
                   !.pc = IF /\ d.entry = "admin"
                             /\ (d.success_count + 1) % ProgressEvery = 0
                          THEN "progress"
                          ELSE "sleep"]
    ELSE [d EXCEPT !.failed_count = @ + 1, !.pc = "report"]

AfterSend(d, api) ==
    IF api = "ok"
    THEN [d EXCEPT !.success_count = @ + 1,
                   !.pc = IF /\ d.entry = "admin"
                             /\ (d.success_count + 1) % ProgressEvery = 0
                          THEN "progress"
                          ELSE "sleep"]
    ELSE Advance([d EXCEPT !.failed_count = @ + 1])

\* "del self.admin_states[user_id]" / "self.user_states.pop(user_id, None)"
KeepState(states, u) == states

ClearState(states, u) == DictPop(states, u)

\* an exception leaves the dispatch: the handler ends in error_handler
DispatchRaised(st, kind, api) ==
    ErrorHandler([st EXCEPT
        !.dispatch.pc = "raised",
        !.outbox = Append(@, Event(st.dispatch, kind, st.dispatch.admin, api))],
        st.dispatch.admin)

\* what opening the renamed file and sending it to a channel does
ForwardOutcomes == {"ok", "TelegramError", "OSError"}

\* Database.get_dump_channels: a failing SELECT gives the empty list
get_dump_channels(channels, db) ==
    IF db = "read_error" THEN <<>> ELSE channels

\* BotHandlers.forward_to_dump_channels up to its first await.
\* get_dump_channels calls get_connection() before its try; a failing
\* connect raises into the outer except, which logs it.
forward_to_dump_channels(st, db) ==
    LET channels == IF db = "connect_error"
                    THEN <<>>
                    ELSE get_dump_channels(st.dump_channels, db)
    IN  [st EXCEPT !.outbox = <<>>,
                   !.fanout = [pc |-> IF channels = <<>> THEN "done" ELSE "send",
                               channels |-> channels, i |-> 1,
                               reported |-> "success"]]

\* after the inner try of a channel, whether the send returned or raised
AfterForwardAborting(f, outcome) ==
    IF outcome = "ok" /\ f.i < Len(f.channels)
    THEN [f EXCEPT !.i = @ + 1]
    ELSE [f EXCEPT !.pc = "done"]

AfterForward(f, outcome) ==
    IF f.i < Len(f.channels)
    THEN [f EXCEPT !.i = @ + 1]
    ELSE [f EXCEPT !.pc = "done"]

\* handle_text without the look at the session: every text is taken for
\* the name of a file
handle_text_as_filename(st, j, u, text, reply) ==
    StartJob(st, j, u, "manual",
             DictGet(DictGet(st.user_states, u, EmptyDict), "file_obj", NoFile),
             text, get_user(st.users, u), reply)

\* BotHandlers.handle_text
handle_text(st, j, u, text, reply) ==
    IF is_banned(st.users, u) THEN Say(st, u, "banned")
    ELSE LET action == ActionOf(st.user_states, u)
         IN  IF action = "awaiting_filename"
             THEN handle_manual_filename(st, j, u, text, reply)
             ELSE IF action = "awaiting_format"
             THEN handle_custom_format(st, u, text)
             ELSE IF action = "awaiting_broadcast"
             THEN IF is_admin(st.users, u) \/ u = OWNER_ID
                  THEN handle_broadcast_message(st, u, text, "ok")
                  ELSE Say(st, u, "no_permission")
             ELSE Say(st, u, "not_understood")

\* BotHandlers.handle_thumbnail: the thumbnail is stored in the session,
\* the reply is awaited, then the session is popped
handle_thumbnail(st, u, reply) ==
    IF is_banned(st.users, u) THEN Say(st, u, "banned")
    ELSE IF ActionOf(st.user_states, u) = "awaiting_thumbnail"
    THEN LET stored == [st EXCEPT !.user_states[u] =
                           DictSet(@, "thumbnail", "photo")]
         IN  IF reply = "ok"
             THEN Say([stored EXCEPT !.user_states = DictPop(@, u)],
                      u, "thumbnail_saved")
             ELSE ErrorHandler(stored, u)
    ELSE Say(st, u, "thumbnail_received")

\* clear_command without the deletion of the session entry
clear_command_keeping_session(st, u) ==
    Say([st EXCEPT !.processing_files = DictPop(@, u)], u, "queue_cleared")

\* BotHandlers.clear_command
clear_command(st, u) ==
    Say([st EXCEPT !.processing_files = DictPop(@, u),
                   !.user_states = DictPop(@, u)],
        u, "queue_cleared")

\* the buttons that change the session or the settings; the other buttons
\* only show a menu
ButtonData ==
    {"set_format", "format_custom", "thumb_custom", "thumb_delete",
     "mode_auto", "mode_manual", "toggle_auto_thumb"}

\* handle_setting_change, 'toggle_auto_thumb': user_data is None for an
\* unknown user and user_data.get raises
toggle_auto_thumb(st, u) ==
    IF u \notin DOMAIN st.users
    THEN ErrorHandler(st, u)
    ELSE LET updated == update_user_settings(st.users, u,
                            [auto_thumbnail |-> ~st.users[u].auto_thumbnail])
         IN  Say([st EXCEPT !.users = updated.table], u,
                 IF updated.success THEN "auto_thumbnail_set" ELSE "update_failed")

\* handle_mode_change
handle_mode_change(st, u, mode) ==
    LET updated == update_user_settings(st.users, u, [rename_mode |-> mode])
    IN  Say([st EXCEPT !.users = updated.table], u,
            IF updated.success THEN "mode_selected" ELSE "update_failed")

\* BotHandlers.button_callback with handle_setting_change,
\* handle_mode_change, handle_format_action and handle_thumbnail_action
button_callback(st, u, data) ==
    IF is_banned(st.users, u) THEN Say(st, u, "banned")
    ELSE CASE data \in {"set_format", "format_custom"} ->
                 Say([st EXCEPT !.user_states =
                         EnterMode(@, u, [action |-> "awaiting_format"])],
                     u, "enter_format")
           [] data = "thumb_custom" ->
                 Say([st EXCEPT !.user_states =
                         EnterMode(@, u, [action |-> "awaiting_thumbnail"])],
                     u, "send_thumbnail")
           [] data = "thumb_delete" ->
                 Say([st EXCEPT !.user_states = DictPop(@, u)],
                     u, "thumbnail_deleted")
           [] data = "mode_auto" -> handle_mode_change(st, u, "auto")
           [] data = "mode_manual" -> handle_mode_change(st, u, "manual")
           [] data = "toggle_auto_thumb" -> toggle_auto_thumb(st, u)
           [] OTHER -> Say(st, u, "unknown_action")

\* process_file_auto and handle_manual_filename from the return of the
\* pipeline to their end.  The success message is formatted from the keys
\* of the result, and a missing key raises KeyError into the except branch;
\* api is what the edits of the status message do.
consume_result(st, j, api) ==
    LET job    == st.jobs[j]
        u      == job.user
        raised == (job.result.success /\ ~(FinalTextKeys \subseteq ResultKeys))
                     \/ api # "ok"
        said   == [st EXCEPT !.last = [user |-> u, kind |-> "result",
                                       from |-> ActionOf(st.user_states, u),
                                       reply |-> "none"]]
        shown  == IF ~raised
                  THEN IF job.result.success
                       THEN [said EXCEPT
                                !.chat[u].status = "success",
                                !.chat[u].sent = <<"status_success", "artifact",
                                                   "dump_fanout">>]
                       ELSE [said EXCEPT !.chat[u].status = "failed"]
                  ELSE IF api = "ok"
                       THEN [said EXCEPT !.chat[u].status = "failed_unexpected"]
                       ELSE ErrorHandler(said, u)
    IN  [shown EXCEPT
            !.processing_files = DictPop(@, u),
            !.user_states = IF job.entry = "manual" THEN DictPop(@, u) ELSE @,
            !.jobs[j] = InitialJob]

(***************************************************************************)
(* The bot: updates arrive from the users and are handled one at a time    *)
(***************************************************************************)
NoJobInFlight == \A j \in JobIds : jobs[j].pc = "idle"

\* send_broadcast / handle_broadcast_message is not running
DispatchEnded == {"idle", "done", "raised"}

\* forward_to_dump_channels is not running
FanoutEnded == {"idle", "done"}

\* the application takes the next update when the handler of the last one
\* has ended
TakeUpdate ==
    /\ NoJobInFlight
    /\ dispatch.pc \in DispatchEnded
    /\ fanout.pc \in FanoutEnded
    /\ updates < MaxUpdates
    /\ updates' = updates + 1
    /\ UNCHANGED <<now, ticks>>

\* the slot of the next job coroutine
Slot == CHOOSE j \in JobIds : TRUE

\* what an awaited call of the Bot API does
ApiOutcomes == {"ok", "TelegramError"}

\* the state in which the handler of an update of user u starts
Update(u, kind) ==
    [State EXCEPT !.last = [user |-> u, kind |-> kind,
                            from |-> ActionOf(user_states, u),
                            reply |-> "none"]]

\* a file larger than MAX_FILE_SIZE
LargeFile ==
    [file_name |-> File_a_mp3, file_size |-> MAX_FILE_SIZE + 1,
     file_type |-> "document", tags |-> EmptyDict, probe |-> EmptyDict]

\* the files users send
SentFiles == {TaggedAudio, LargeFile}

\* the texts users send: a file name and a template
SentTexts == {S_T, T_title}

\* a document or video message from user u with one of the files, while the
\* ban lookup meets one of the outcomes lookups
HandleFileOf(u, files, lookups) ==
    /\ TakeUpdate
    /\ started < MaxJobs
    /\ \E file_obj \in files, reply \in ApiOutcomes, db \in StorageOutcomes,
          lookup \in lookups :
          Commit(handle_file(Update(u, "file"), Slot, u, file_obj, reply, db, lookup))

\* a document or video message from user u
HandleFile(u) == HandleFileOf(u, SentFiles, {"ok"})

\* a text message from user u
HandleText(u) ==
    /\ TakeUpdate
    /\ \E text \in SentTexts, reply \in ApiOutcomes :
          Commit(handle_text(Update(u, "text"), Slot, u, text, reply))

\* a photo from user u
HandleThumbnail(u) ==
    /\ TakeUpdate
    /\ \E reply \in ApiOutcomes : Commit(handle_thumbnail(Update(u, "photo"), u, reply))

\* user u presses a button
ButtonCallback(u) ==
    /\ TakeUpdate
    /\ \E data \in ButtonData : Commit(button_callback(Update(u, "button"), u, data))

\* /clear from user u
ClearCommand(u) ==
    /\ TakeUpdate
    /\ Commit(clear_command(Update(u, "command"), u))

\* the pipeline has returned to the handler that awaited it
ConsumeResult(j) ==
    /\ jobs[j].pc = "returned"
    /\ jobs[j].caller = "handler"
    /\ \E api \in ApiOutcomes : Commit(consume_result(State, j, api))
    /\ UNCHANGED <<now, ticks, updates>>

\* the users table when the bot starts: empty, or with the users who have
\* used the bot before it was restarted
InitialUsers == {[u \in U |-> NewUserRow] : U \in {{}, Users}}

\* the bot has been constructed and the users table is one of tables
InitWith(tables) ==
    /\ now = 0
    /\ ticks = 0
    /\ fs = [q \in {} |-> OldFile]
    /\ jobs = [j \in JobIds |-> InitialJob]
    /\ started = 0
    /\ file_history = <<>>
    /\ users \in tables
    /\ user_states = [u \in {} |-> 0]
    /\ processing_files = [u \in {} |-> 0]
    /\ rate_limits = [u \in {} |-> 0]
    /\ updates = 0
    /\ chat = [u \in Users |-> NoChat]
    /\ last = NoUpdate
    /\ admin_states = [u \in {} |-> 0]
    /\ dispatch = NoDispatch
    /\ outbox = <<>>
    /\ dump_channels = <<>>
    /\ fanout = NoFanout
    /\ windows = [u \in {} |-> 0]

Init == InitWith(InitialUsers)

Next ==
    \/ \E u \in Users : HandleFile(u)
    \/ \E u \in Users : HandleText(u)
    \/ \E u \in Users : HandleThumbnail(u)
    \/ \E u \in Users : ButtonCallback(u)
    \/ \E u \in Users : ClearCommand(u)
    \/ \E j \in JobIds : ProgressCallback(j)
    \/ \E j \in JobIds : GetFile(j)
    \/ \E j \in JobIds : DownloadToDrive(j)
    \/ \E j \in JobIds : ConsumeResult(j)

Spec == Init /\ [][Next]_vars

(***************************************************************************)
(* The admin's broadcast and the fan-out, with many users                  *)
(***************************************************************************)
\* how many users receive a broadcast
MaxRecipients == 23

\* how many dump channels are configured
MaxChannels == 3

\* /broadcast from user u, with or without the text
BroadcastCommand(u) ==
    /\ TakeUpdate
    /\ \E args \in {<<>>, S_T}, db \in StorageOutcomes \ {"write_error"} :
          Commit(broadcast_command(Update(u, "command"), u, args, db))

\* handle_broadcast_message, called as handle_text calls it for an admin
\* whose session is awaiting_broadcast
CallBroadcastMessage(u) ==
    /\ TakeUpdate
    /\ is_admin(users, u) \/ u = OWNER_ID
    /\ \E db \in StorageOutcomes \ {"write_error"} :
          Commit(handle_broadcast_message(Update(u, "text"), u, S_T, db))

\* the message that announces the dispatch has been sent, or was refused
Announce ==
    /\ dispatch.pc = "announce"
    /\ \E api \in ApiOutcomes :
          Commit(IF api = "ok"
                 THEN [State EXCEPT
                          !.outbox = Append(@, Event(dispatch, "announce",
                                                     dispatch.admin, api)),
                          !.dispatch.pc = IF dispatch.all_users = <<>>
                                          THEN "report" ELSE "send"]
                 ELSE DispatchRaised(State, "announce", api))
    /\ UNCHANGED <<now, ticks, updates>>

\* the places in the list of users whose delivery may fail: any, and the
\* 7th and the 15th of a long list
MayFail(all_users) ==
    IF Len(all_users) > ProgressEvery + 1 THEN {7, 15} ELSE 1..Len(all_users)

\* what the transport does with a delivery
DeliveryOutcomes ==
    IF dispatch.i \in MayFail(dispatch.all_users) THEN ApiOutcomes ELSE {"ok"}

\* "await context.bot.send_message(chat_id=target_user_id, ...)"
SendMessage ==
    /\ dispatch.pc = "send"
    /\ \E api \in DeliveryOutcomes :
          Commit([State EXCEPT
                     !.outbox = Append(@, Event(dispatch, "send",
                                          dispatch.all_users[dispatch.i], api)),
                     !.dispatch = AfterSend(dispatch, api)])
    /\ UNCHANGED <<now, ticks, updates>>

\* "await progress_msg.edit_text(...)" inside "try: ... except: pass"
EditProgress ==
    /\ dispatch.pc = "progress"
    /\ \E api \in ApiOutcomes :
          Commit([State EXCEPT
                     !.outbox = Append(@, Event(dispatch, "progress",
                                                dispatch.admin, api)),
                     !.dispatch.pc = "sleep"])
    /\ UNCHANGED <<now, ticks, updates>>

\* "await asyncio.sleep(0.1)"
Sleep ==
    /\ dispatch.pc = "sleep"
    /\ Commit([State EXCEPT
                   !.outbox = Append(@, Event(dispatch, "sleep", NoUser, "ok")),
                   !.dispatch = Advance(dispatch)])
    /\ UNCHANGED <<now, ticks, updates>>

\* the final counts are sent to the admin, then the state is cleared
Report ==
    /\ dispatch.pc = "report"
    /\ \E api \in ApiOutcomes :
          Commit(IF api = "ok"
                 THEN [State EXCEPT
                          !.outbox = Append(@, Event(dispatch, "report",
                                                     dispatch.admin, api)),
                          !.dispatch.pc = "done",
                          !.admin_states =
                              IF dispatch.entry = "admin"
                              THEN ClearState(@, dispatch.admin) ELSE @,
                          !.user_states =
                              IF dispatch.entry = "handlers"
                              THEN ClearState(@, dispatch.admin) ELSE @]
                 ELSE DispatchRaised(State, "report", api))
    /\ UNCHANGED <<now, ticks, updates>>

\* a handler calls forward_to_dump_channels after it reported success
CallForward ==
    /\ TakeUpdate
    /\ \E db \in StorageOutcomes \ {"write_error"} :
          Commit(forward_to_dump_channels(State, db))

\* "with open(file_path, 'rb') as file: await context.bot.send_document(...)"
ForwardDocument ==
    /\ fanout.pc = "send"
    /\ \E outcome \in ForwardOutcomes :
          Commit([State EXCEPT
                     !.outbox = Append(@, [kind |-> "forward",
                                          to |-> fanout.channels[fanout.i],
                                          outcome |-> outcome,
                                          success |-> 0, failed |-> 0]),
                     !.fanout = AfterForward(fanout, outcome)])
    /\ UNCHANGED <<now, ticks, updates>>

\* a user who is banned
BannedUser == 3

\* the users table with r users who are not banned
Table(r) ==
    [u \in 1..(IF r >= BannedUser THEN r + 1 ELSE r) |->
        [NewUserRow EXCEPT !.is_banned = (u = BannedUser)]]

\* the channels, as get_dump_channels orders them
Channels(n) == [k \in 1..n |-> n + 1 - k]

\* the sizes of the bot's tables: two users, one more than a progress
\* report takes, and many
Scenes ==
    {[recipients |-> 2, channels |-> MaxChannels],
     [recipients |-> ProgressEvery + 1, channels |-> 1],
     [recipients |-> MaxRecipients, channels |-> 0]}

InitTx ==
    /\ now = 0
    /\ ticks = 0
    /\ fs = [q \in {} |-> OldFile]
    /\ jobs = [j \in JobIds |-> InitialJob]
    /\ started = 0
    /\ file_history = <<>>
    /\ user_states = [u \in {} |-> 0]
    /\ processing_files = [u \in {} |-> 0]
    /\ rate_limits = [u \in {} |-> 0]
    /\ updates = 0
    /\ chat = [u \in Users |-> NoChat]
    /\ last = NoUpdate
    /\ admin_states = [u \in {} |-> 0]
    /\ dispatch = NoDispatch
    /\ outbox = <<>>
    /\ fanout = NoFanout
    /\ windows = [u \in {} |-> 0]
    /\ \E scene \in Scenes :
          /\ users = Table(scene.recipients)
          /\ dump_channels = Channels(scene.channels)

DispatchNext ==
    \/ Announce
    \/ SendMessage
    \/ EditProgress
    \/ Sleep
    \/ Report

NextTx ==
    \/ \E u \in Users : BroadcastCommand(u)
    \/ \E u \in Users : CallBroadcastMessage(u)
    \/ DispatchNext

SpecTx == InitTx /\ [][NextTx]_vars

NextFan ==
    \/ CallForward
    \/ ForwardDocument

\* the fan-out on its own
SpecFan == InitTx /\ [][NextFan]_vars

\* the button "admin_broadcast" of the admin menu is pressed by user u
AdminButton(u) ==
    /\ TakeUpdate
    /\ Commit(button_callback(Update(u, "button"), u, "admin_broadcast"))

\* with the two users of Init a dispatch never counts ProgressEvery
\* deliveries, so it has no progress report to edit
NextAdmin ==
    \/ \E u \in Users : BroadcastCommand(u)
    \/ \E u \in Users : AdminButton(u)
    \/ \E u \in Users : HandleText(u)
    \/ Announce
    \/ SendMessage
    \/ Sleep
    \/ Report

\* the admin's conversation: commands, buttons and texts
SpecAdmin == Init /\ [][NextAdmin]_vars

\* the event loop resumes a dispatch whose awaited call has completed
SpecTxLive == SpecTx /\ WF_vars(DispatchNext)

(***************************************************************************)
(* The rate limiter on its own: callers ask check_rate_limit for a user    *)
(* while time passes                                                        *)
(***************************************************************************)
\* how many calls of check_rate_limit are made
MaxCalls == 6

\* how often time passes between calls
MaxElapses == 2

\* the time that passes between two calls: a second, the window, or more
Elapses == {1, window_seconds, window_seconds + 1}

\* what the caller of check_rate_limit sees
Answer(limit) ==
    IF limit.raised THEN "raised" ELSE IF limit.allowed THEN "allowed" ELSE "denied"

\* the calls made for a user since the user's window opened, as the caller
\* counts them: a window opens with the first call and with the first call
\* made window_seconds or more after the last opening.  A call during which
\* the storage failed is not counted and marks the user's windows from then
\* on.
Observe(seen, u, t, db, answer) ==
    LET fresh  == u \notin DOMAIN seen \/ t - seen[u].opened >= window_seconds
        before == IF fresh
                  THEN [opened |-> t, results |-> <<>>,
                        faulted |-> u \in DOMAIN seen /\ seen[u].faulted]
                  ELSE seen[u]
        after  == IF db = "ok"
                  THEN [before EXCEPT !.results = Append(@, answer)]
                  ELSE [before EXCEPT !.faulted = TRUE]
    IN  [v \in DOMAIN seen \cup {u} |-> IF v = u THEN after ELSE seen[v]]

\* a caller asks whether a request of user u is allowed
Allow(u) ==
    /\ updates < MaxCalls
    /\ \E db \in StorageOutcomes :
          LET limit == check_rate_limit(rate_limits, u, now, db)
          IN  /\ rate_limits' = limit.table
              /\ last' = [user |-> u, kind |-> "allow", from |-> db,
                          reply |-> Answer(limit)]
              /\ windows' = Observe(windows, u, now, db, Answer(limit))
    /\ updates' = updates + 1
    /\ UNCHANGED <<now, ticks, fs, jobs, started, file_history, users,
                   user_states, processing_files, chat, admin_states,
                   dispatch, outbox, dump_channels, fanout>>

\* time passes between two calls
Elapse ==
    /\ ticks < MaxElapses
    /\ \E d \in Elapses : now' = now + d
    /\ ticks' = ticks + 1
    /\ UNCHANGED <<fs, jobs, started, file_history, users, user_states,
                   processing_files, rate_limits, updates, chat, last,
                   admin_states, dispatch, outbox, dump_channels, fanout,
                   windows>>

NextRL ==
    \/ \E u \in Users : Allow(u)
    \/ Elapse

SpecRL == Init /\ [][NextRL]_vars


(***************************************************************************)
(* The file job pipeline: stage order and failure handling                 *)
(***************************************************************************)
IsPrefix(s, t) == Len(s) <= Len(t) /\ \A i \in 1..Len(s) : s[i] = t[i]

WithoutTagging(order) == SelectSeq(order, LAMBDA stage : stage # "Tagging")

\* the stages seen so far are an initial part of order, Tagging left out or not
FollowsOrder(stages, order) ==
    IsPrefix(stages, order) \/ IsPrefix(stages, WithoutTagging(order))

AutoOrder ==
    <<"Downloading", "Inspecting", "Composing", "Renaming", "Tagging", "Recording">>

ManualOrder ==
    <<"Downloading", "Composing", "Renaming", "Inspecting", "Tagging", "Recording">>

Returned(j) == jobs[j].pc = "returned"

LastStage(j) == jobs[j].stages[Len(jobs[j].stages)]

C2_FailureEndsTheJob ==
    \A j \in JobIds :
        LET job == jobs[j]
        IN  /\ job.download = "failed" =>
                  /\ Returned(j)
                  /\ ~job.result.success
                  /\ job.result.error = "Failed to download file"
                  /\ job.stages = <<"Downloading">>
                  /\ job.rename = "none"
                  /\ job.tagging = "none"
                  /\ job.recording = "none"
                  /\ \A q \in DOMAIN fs : fs[q].job = job.id => q = job.file_path
            /\ job.rename = "failed" =>
                  /\ Returned(j)
                  /\ ~job.result.success
                  /\ job.result.error = "Failed to rename file"
                  /\ LastStage(j) = "Renaming"
                  /\ job.renamed_path = <<>>
                  /\ job.tagging = "none"
                  /\ job.recording = "none"

\* a download failed and left a partial file behind, in a job that would
\* have written tags and a history record
C2_DownloadFailed ==
    \E j \in JobIds :
        /\ jobs[j].download = "failed"
        /\ jobs[j].file_path \in DOMAIN fs
        /\ jobs[j].user_data.auto_thumbnail
        /\ jobs[j].user_data.user_id # NoUser

\* C3 as claimed: no job ends because the progress sink failed.
C3_SinkFailureNeverEndsJob ==
    \A j \in JobIds : Returned(j) => jobs[j].failed_in # "progress"

\* the smallest-suffix rule of C4, stated without the loop of rename_file
SuffixedName(new_name, k) ==
    splitext(new_name)[1] \o <<"_">> \o IntToStr(k) \o splitext(new_name)[2]

SmallestUnused(existing, new_name) ==
    IF new_name \notin existing
    THEN new_name
    ELSE LET free == {k \in 1..(Cardinality(existing) + 1) :
                         SuffixedName(new_name, k) \notin existing}
         IN  SuffixedName(new_name, Min(free))

\* C4: a rename never targets a path that exists and changes no other file:
\* the target is the requested name when it is free, and otherwise the name
\* with the smallest unused suffix _1, _2, ...; the renamed file is the job's
\* download, and every other path keeps the file it held.
C4_RenameStep ==
    \A j \in JobIds :
        (jobs[j].rename = "none" /\ jobs'[j].rename = "ok") =>
            LET src    == jobs[j].file_path
                target == jobs'[j].renamed_path
            IN  /\ target \notin DOMAIN fs
                /\ target = SmallestUnused(DOMAIN fs, jobs'[j].new_filename)
                /\ DOMAIN fs' = (DOMAIN fs \ {src}) \cup {target}
                /\ fs'[target] = fs[src]
                /\ \A q \in DOMAIN fs \ {src} : fs'[q] = fs[q]

C4_RenameNeverOverwrites == [][C4_RenameStep]_vars

\* T.mp3 and T_1.mp3 were there, and a job's file was renamed to T_2.mp3
C4_SecondSuffixTaken ==
    \E j \in JobIds :
        /\ jobs[j].rename = "ok"
        /\ jobs[j].new_filename = File_T_mp3
        /\ jobs[j].renamed_path = <<"T", "_", "2", ".", "m", "p", "3">>
        /\ {File_T_mp3, File_T_1_mp3} \subseteq DOMAIN fs
        /\ fs[File_T_mp3] = OldFile
        /\ fs[jobs[j].renamed_path].job = jobs[j].id

\* C5 as claimed: a job whose tag writing failed returns success = true with
\* the renamed file at the path of the result.
C5_TagFailureStillSucceeds ==
    \A j \in JobIds :
        (Returned(j) /\ jobs[j].tagging = "failed") =>
            /\ jobs[j].recording # "none"
            /\ jobs[j].result.success
            /\ jobs[j].result.file_path \in DOMAIN fs

\* C6 as claimed: a job whose history record could not be written returns
\* success = true with the path and name the rename gave it.
C6_HistoryFailureStillSucceeds ==
    \A j \in JobIds :
        (Returned(j) /\ jobs[j].recording \in {"error", "connect_error"}) =>
            /\ jobs[j].result.success
            /\ jobs[j].result.file_path = jobs[j].renamed_path
            /\ jobs[j].result.filename = jobs[j].new_filename

(***************************************************************************)
(* The conversation layer: sessions and the use of the job result          *)
(***************************************************************************)
AwaitingModes == {"awaiting_filename", "awaiting_format", "awaiting_thumbnail"}

\* user u is Idle: no entry in user_states
SessionIdle(u) == u \notin DOMAIN user_states

\* the replies that report a failure to the user
FailureReplies ==
    {"error_occurred", "invalid_filename", "user_data_not_found",
     "no_file_to_rename", "update_failed"}

\* C7 as claimed: a text sent by a user whose session is AwaitingFilename
\* with a pending file starts one job for that file, and when the job is
\* over the session is Idle; so after such a text has been handled, either
\* the job it started is running or the session is Idle.
C7_FilenameTextStartsJob ==
    (last.kind = "text" /\ last.from = "awaiting_filename") =>
        \/ \E j \in JobIds : /\ jobs[j].pc # "idle"
                             /\ jobs[j].entry = "manual"
                             /\ jobs[j].user = last.user
        \/ SessionIdle(last.user)

\* C8 as claimed: when the handling of a text in an Awaiting* mode, or of a
\* job result, ends in a failure reported to the user, the user's session
\* is Idle.
C8_FailureEndsInIdle ==
    (/\ last.kind \in {"text", "result"}
     /\ last.from \in AwaitingModes
     /\ last.reply \in FailureReplies) => SessionIdle(last.user)

\* C9: a session is an entry with exactly one action, which is one of the
\* Awaiting* modes (Idle is the absence of the entry); a pending file is
\* there only in awaiting_filename, and an entry holds no key of another
\* mode: awaiting_format holds nothing else, awaiting_thumbnail at most the
\* thumbnail, awaiting_filename exactly the file and its type.
C9_OneModeAndItsData ==
    \A u \in DOMAIN user_states :
        LET session == user_states[u]
        IN  /\ "action" \in DOMAIN session
            /\ session.action \in AwaitingModes
            /\ "file_obj" \in DOMAIN session => session.action = "awaiting_filename"
            /\ session.action = "awaiting_filename" =>
                  DOMAIN session = {"action", "file_obj", "file_type"}
            /\ session.action = "awaiting_format" => DOMAIN session = {"action"}
            /\ session.action = "awaiting_thumbnail" =>
                  DOMAIN session \subseteq {"action", "thumbnail"}

\* a button has taken a session with a pending file to awaiting_format
C9_FormatEnteredWithFilePending ==
    /\ last.kind = "button"
    /\ last.from = "awaiting_filename"
    /\ ActionOf(user_states, last.user) = "awaiting_format"

\* C10 as claimed: when the handler has consumed a result with success =
\* true and the transport worked, the status message shows the success, and
\* the artifact was sent and the dump fan-out invoked after it, in that
\* order.
C10_SuccessStep ==
    \A j \in JobIds :
        (/\ jobs[j].pc = "returned"
         /\ jobs[j].caller = "handler"
         /\ jobs[j].result.success
         /\ jobs'[j].pc = "idle"
         /\ last'.reply # "error_occurred") =>
            /\ chat'[jobs[j].user].status = "success"
            /\ chat'[jobs[j].user].sent = <<"status_success", "artifact", "dump_fanout">>

C10_SuccessIsShownAndSent == [][C10_SuccessStep]_vars


(***************************************************************************)
(* Claims about the rate limiter, checked under SpecRL                     *)
(***************************************************************************)
\* the step is a call of check_rate_limit
AllowStep == updates' = updates + 1 /\ last'.kind = "allow"

\* C12: with ceiling 5 and window 60 s, of the calls made for a user since
\* the user's window opened exactly the first 5 are allowed and every
\* further one is denied, and the call that opens a window (the first call,
\* or the first call after the window has elapsed) leaves the stored count
\* at 1
C12_FiveCallsPerWindow ==
    \A u \in DOMAIN windows :
        ~windows[u].faulted =>
            /\ \A i \in 1..Len(windows[u].results) :
                   windows[u].results[i] =
                       IF i <= max_requests THEN "allowed" ELSE "denied"
            /\ Len(windows[u].results) = 1 =>
                   /\ u \in DOMAIN rate_limits
                   /\ rate_limits[u].request_count = 1

\* C13: a request made when now - windowStart >= windowSeconds, the
\* difference being exactly windowSeconds included, is allowed and resets
\* the window to count 1 and windowStart = now
C13_ExpiryStep ==
    LET u == last'.user
    IN  (/\ AllowStep
         /\ last'.from = "ok"
         /\ u \in DOMAIN rate_limits
         /\ now - rate_limits[u].window_start >= window_seconds)
            => /\ last'.reply = "allowed"
               /\ rate_limits'[u] = [request_count |-> 1, window_start |-> now]

C13_ElapsedWindowIsReset == [][C13_ExpiryStep]_vars

\* C14: a request is denied only at the ceiling and leaves the stored count
\* and window start as they were
C14_DenyStep ==
    (AllowStep /\ last'.reply = "denied")
        => /\ last'.user \in DOMAIN rate_limits
           /\ rate_limits[last'.user].request_count = max_requests
           /\ rate_limits' = rate_limits

\* C14: every stored count is between 1 and the ceiling
C14_CountInRange ==
    \A u \in DOMAIN rate_limits :
        /\ rate_limits[u].request_count >= 1
        /\ rate_limits[u].request_count <= max_requests

\* C14: a denied request leaves the user's stored count and window start
\* unchanged, and in every reachable state every user's count is between 1
\* and the ceiling
C14_DenialLeavesWindow == []C14_CountInRange /\ [][C14_DenyStep]_vars

\* C14 witness: a request has been denied at the ceiling, in a window that
\* began with five allowed requests
C14_DeniedAtCeiling ==
    /\ last.kind = "allow"
    /\ last.reply = "denied"
    /\ rate_limits[last.user].request_count = max_requests
    /\ Len(windows[last.user].results) = max_requests + 1

\* C15: a call during which the storage fails, at any user and any stored
\* window, returns true
C15_StorageFailureAllows ==
    (last.kind = "allow" /\ last.from # "ok") => last.reply = "allowed"


Sends == SelectSeq(outbox, LAMBDA e : e.kind = "send")

\* the places in the list of users whose delivery had the outcome
Places(outcome) == {k \in 1..Len(Sends) : Sends[k].outcome = outcome}

Reported ==
    /\ dispatch.pc = "done"
    /\ outbox[Len(outbox)].kind = "report"
    /\ dispatch.entry = "admin" => dispatch.admin \notin DOMAIN admin_states
    /\ dispatch.entry = "handlers" => dispatch.admin \notin DOMAIN user_states

C18_TextStep ==
    LET u == last'.user
    IN  (/\ updates' = updates + 1
         /\ last'.kind = "text"
         /\ is_authorized(users, u)
         /\ AdminStateOf(admin_states, u) = "waiting_broadcast"
         /\ get_all_users(users, "ok") # <<>>)
            => /\ dispatch'.pc = "announce"
               /\ dispatch'.admin = u
               /\ dispatch'.all_users = get_all_users(users, "ok")

C18_AwaitedTextIsBroadcast == [][C18_TextStep]_vars

\* C19: between every two consecutive deliveries of a dispatch there is a
\* pacing delay, whether the earlier one succeeded or failed (checked under
\* SpecTx)
C19_DelayBetweenSends ==
    \A k \in 1..Len(outbox) : \A m \in (k + 1)..Len(outbox) :
        (outbox[k].kind = "send" /\ outbox[m].kind = "send")
            => \E n \in (k + 1)..(m - 1) : outbox[n].kind = "sleep"

\* how many deliveries were attempted up to the k-th request
Processed(k) ==
    Cardinality({n \in 1..k : outbox[n].kind = "send"})

\* C20: send_broadcast reports progress to the admin each time the number
\* of recipients processed reaches a multiple of 10, and only then, however
\* many of the deliveries failed (checked under SpecTx)
C20_ProgressEveryTenProcessed ==
    dispatch.entry = "admin" =>
        /\ \A k \in 1..(Len(outbox) - 1) :
               (outbox[k].kind = "send" /\ Processed(k) % ProgressEvery = 0)
                   => outbox[k + 1].kind = "progress"
        /\ \A k \in 1..Len(outbox) :
               outbox[k].kind = "progress"
                   => /\ k > 1
                      /\ outbox[k - 1].kind = "send"
                      /\ Processed(k - 1) % ProgressEvery = 0


(***************************************************************************)
(* Claims C21 - C24: the handlers and the entries of the users             *)
(***************************************************************************)
\* the entries the handlers keep for user v are the same before and after
\* a step
EntriesKept(v) ==
    /\ (v \in DOMAIN user_states') = (v \in DOMAIN user_states)
    /\ v \in DOMAIN user_states => user_states'[v] = user_states[v]
    /\ (v \in DOMAIN processing_files') = (v \in DOMAIN processing_files)
    /\ v \in DOMAIN processing_files => processing_files'[v] = processing_files[v]

\* C21: when /clear of user u has been handled, u has no entry in
\* user_states and none in processing_files, whatever u's session was
\* before; the job coroutines are left as they are, and so are the entries
\* of every other user (checked under Spec)
C21_ClearStep ==
    LET u == last'.user
    IN  (/\ updates' = updates + 1
         /\ last'.kind = "command"
         /\ last'.reply = "queue_cleared")
            => /\ u \notin DOMAIN user_states'
               /\ u \notin DOMAIN processing_files'
               /\ jobs' = jobs
               /\ \A v \in Users \ {u} : EntriesKept(v)

File_a_exe == <<"a", ".", "e", "x", "e">>

\* a document whose extension FileManager.validate_file does not list
Program ==
    [file_name |-> File_a_exe, file_size |-> 1, file_type |-> "document",
     tags |-> EmptyDict, probe |-> EmptyDict]

\* FileManager.validate_file: supported_exts
supported_exts ==
    VideoExtensions \cup AudioExtensions \cup
        {<<".", "p", "d", "f">>, <<".", "d", "o", "c">>, <<".", "d", "o", "c", "x">>,
         <<".", "t", "x", "t">>, <<".", "z", "i", "p">>, <<".", "r", "a", "r">>,
         <<".", "7", "z">>}

GateFiles == {TaggedAudio, LargeFile, Program}

\* the user an admin has banned
BannedSender == Max(Users)

\* the users table: every user is known and has chosen a rename mode, one
\* user is banned
GateUsers ==
    {[u \in Users |-> [NewUserRow EXCEPT !.is_banned = (u = BannedSender),
                                         !.rename_mode = mode[u]]] :
        mode \in [Users -> {"auto", "manual"}]}

InitGate == InitWith(GateUsers)

NextGate == \E u \in Users : HandleFileOf(u, GateFiles, LookupOutcomes)

SpecGate == InitGate /\ [][NextGate]_vars

\* the replies that tell the sender of a file that it is not processed
Rejections ==
    {"banned", "too_large", "rate_limited", "user_data_not_found", "error_occurred"}

\* the step handles a file message
FileStep == updates' = updates + 1 /\ last'.kind = "file"

\* the step starts a job
JobStarted == started' = started + 1

\* the file of the job the step starts
StartedFile == jobs'[Slot].file_obj

\* the step stores a pending file for the sender and asks for its name
PendingStored ==
    LET u == last'.user
    IN  /\ last'.reply = "send_filename"
        /\ u \in DOMAIN user_states'
        /\ "file_obj" \in DOMAIN user_states'[u]

\* the file the step stores
StoredFile == user_states'[last'.user].file_obj

\* C22: a file message from a banned user, or with a file larger than
\* MAX_FILE_SIZE, starts no job and stores no pending file, in auto and in
\* manual mode, and the sender is told so: a step that starts a job or
\* stores a file does so for a user who is not banned and a file within
\* the limit, a banned sender gets a rejection, and so does every sender
\* for whom nothing is started or stored (checked under SpecGate)
C22_GateStep ==
    LET u == last'.user
    IN  FileStep =>
            /\ JobStarted => /\ ~is_banned(users, u)
                             /\ StartedFile.file_size <= MAX_FILE_SIZE
            /\ PendingStored => /\ ~is_banned(users, u)
                                /\ StoredFile.file_size <= MAX_FILE_SIZE
            /\ is_banned(users, u) => last'.reply \in Rejections
            /\ ~(JobStarted \/ PendingStored) => last'.reply \in Rejections

C22_BannedOrLargeIsRejected == [][C22_GateStep]_vars

\* C23: a file message with a file whose extension is not a supported one
\* starts no job and stores no pending file (checked under SpecGate)
C23_GateStep ==
    FileStep =>
        /\ JobStarted =>
               get_file_extension(StartedFile.file_name) \in supported_exts
        /\ PendingStored =>
               get_file_extension(StoredFile.file_name) \in supported_exts

C23_UnsupportedIsRejected == [][C23_GateStep]_vars

\* the user whose event the step handles: the sender of the update taken, or
\* the user whose job goes on
Actor == IF updates' # updates THEN last'.user ELSE jobs[Slot].user

\* C24: whatever a handler does for a user A, and wherever the job of A
\* is, each step leaves the user_states entry and the processing_files
\* entry of every other user B as they are (checked under Spec)
C24_OthersStep == \A v \in Users \ {Actor} : EntriesKept(v)

S_Song == <<"S", "o", "n", "g">>

\* a text of n letters
Letters(n) == [i \in 1..n |-> "a"]

\* an mp3 whose tags are tags
Audio(tags) ==
    [file_name |-> File_a_mp3, file_size |-> 2048, file_type |-> "document",
     tags |-> tags, probe |-> [k \in {"bitrate"} |-> 128]]

\* a title tag and nothing else
TitleOnly(title) == [k \in {"title"} |-> title]

\* title "Song", no artist tag
SongWithoutArtist == Audio(TitleOnly(S_Song))

\* a title tag with a line break in it
TitleWithLineBreak == Audio(TitleOnly(<<"a", "\n", "b">>))

\* a title tag that reads like a placeholder
TitleLikePlaceholder ==
    Audio([k \in {"title", "artist"} |->
              IF k = "title" THEN Placeholder(S_artist) ELSE S_R])

\* a title longer than the stem sanitize_filename keeps
LongTitle == Audio(TitleOnly(Letters(MaxStemLen + 1)))

\* a title with a dot in it that fills the stem
LongDottedTitle == Audio(TitleOnly(Letters(MaxStemLen - 1) \o <<".", "x">>))

\* a document without an extension
BareDocument ==
    [file_name |-> <<"a">>, file_size |-> 1, file_type |-> "document",
     tags |-> EmptyDict, probe |-> EmptyDict]

NamedFiles ==
    {SongWithoutArtist, TaggedAudio, PlainVideo, TitleWithLineBreak,
     TitleLikePlaceholder, LongTitle, LongDottedTitle, BareDocument}

T_title_artist == <<"{", "t", "i", "t", "l", "e", "}", " ", "-", " ", "{", "a", "r", "t", "i", "s", "t", "}">>

T_artist == Placeholder(S_artist)

T_author == Placeholder(S_author)

NameTemplates ==
    {T_title, T_title_artist, T_artist, T_author,
     T_title \o <<".", "m", "p", "3">>,
     Placeholder(<<"n", "a", "m", "e">>),
     T_title \o <<"?">>,
     <<".">>}

\* FileManager.generate_filename is called with the description
\* get_file_info_detailed gives of a downloaded file, or of a file that is
\* no longer there
CallGenerateFilename(j) ==
    /\ jobs[j].pc = "idle"
    /\ \E file_obj \in NamedFiles, format_template \in NameTemplates,
          present \in BOOLEAN :
          LET path      == DownloadPath(now, file_obj.file_name)
              dir       == [q \in (IF present THEN {path} ELSE {}) |->
                               [job |-> 1, content |-> file_obj]]
              file_info == get_file_info_detailed(dir, path)
          IN  jobs' = [jobs EXCEPT ![j] =
                          [InitialJob EXCEPT
                              !.pc = "returned", !.id = 1,
                              !.caller = "naming", !.entry = "auto",
                              !.file_obj = file_obj, !.file_path = path,
                              !.file_info = file_info,
                              !.user_data = [NoUserData EXCEPT
                                                !.custom_format = format_template],
                              !.new_filename =
                                  generate_filename(file_info, format_template)]]
    /\ UNCHANGED <<now, ticks, started, fs, file_history, users, user_states,
                   processing_files, rate_limits, updates, chat, last,
                   admin_states, dispatch, outbox, dump_channels, fanout,
                   windows>>

NextName == \E j \in JobIds : CallGenerateFilename(j)

SpecName == InitWith({[u \in {} |-> NewUserRow]}) /\ [][NextName]_vars

(***************************************************************************)
(* Claims C25 - C30: the names generate_filename composes                  *)
(***************************************************************************)
\* generate_filename has returned to job j
Named(j) == jobs[j].pc = "returned" /\ jobs[j].caller = "naming"

\* the text of the template after the loop of replacements
Substituted(j) ==
    ReplaceVariables(jobs[j].user_data.custom_format,
                     TemplateVariables(jobs[j].file_info), 1)

\* C25: the template "{title} - {artist}" for a description with title
\* "Song", artist "Unknown Artist" and extension ".mp3" gives exactly
\* "Song - Unknown Artist.mp3" (checked under SpecName)
C25_SongScenario ==
    \A j \in JobIds :
        (/\ Named(j)
         /\ jobs[j].user_data.custom_format = T_title_artist
         /\ DictGet(jobs[j].file_info, "title", <<>>) = S_Song
         /\ DictGet(jobs[j].file_info, "artist", <<"U", "n", "k", "n", "o", "w", "n", " ", "A", "r", "t", "i", "s", "t">>) = <<"U", "n", "k", "n", "o", "w", "n", " ", "A", "r", "t", "i", "s", "t">>
         /\ DictGet(jobs[j].file_info, "extension", <<>>) = <<".", "m", "p", "3">>)
            => jobs[j].new_filename = <<"S", "o", "n", "g", " ", "-", " ", "U", "n", "k", "n", "o", "w", "n", " ", "A", "r", "t", "i", "s", "t", ".", "m", "p", "3">>

\* C26: sanitize_filename leaves every name generate_filename returns as
\* it is, also when the stem was cut and the extension appended (checked
\* under SpecName)
C26_SanitizeKeepsComposedName ==
    \A j \in JobIds :
        Named(j) => sanitize_filename(jobs[j].new_filename) = jobs[j].new_filename

\* control characters that a tag can hold
ControlChars == {"\n", "\t", "\r"}

\* C27: every name generate_filename returns is non-empty and holds none
\* of < > : " / \ | ? * and no control character (checked under SpecName)
C27_ComposedNameIsClean ==
    \A j \in JobIds :
        Named(j) =>
            /\ jobs[j].new_filename # <<>>
            /\ \A i \in 1..Len(jobs[j].new_filename) :
                   jobs[j].new_filename[i] \notin InvalidChars \cup ControlChars

\* one pass over the text: where a placeholder of variables starts, its
\* value is written and the pass goes on behind the placeholder
RECURSIVE SubstituteAtOnce(_, _)
SubstituteAtOnce(text, variables) ==
    LET starts == {k \in 1..Len(text) :
                      \E i \in 1..Len(variables) :
                          StartsWith(SubSeq(text, k, Len(text)),
                                     Placeholder(variables[i][1]))}
    IN  IF starts = {} THEN text
        ELSE LET k == Min(starts)
                 i == Min({n \in 1..Len(variables) :
                              StartsWith(SubSeq(text, k, Len(text)),
                                         Placeholder(variables[n][1]))})
             IN  SubSeq(text, 1, k - 1) \o variables[i][2] \o
                     SubstituteAtOnce(
                         SubSeq(text, k + Len(Placeholder(variables[i][1])),
                                Len(text)),
                         variables)

\* C28: before the name is sanitized, every recognized placeholder of the
\* template has been replaced by its value, everything else is as it was,
\* and no text of a value has been taken for a placeholder: the text is
\* what one simultaneous substitution gives (checked under SpecName)
C28_SubstitutionIsSimultaneous ==
    \A j \in JobIds :
        Named(j) =>
            Substituted(j) =
                SubstituteAtOnce(jobs[j].user_data.custom_format,
                                 TemplateVariables(jobs[j].file_info))

\* C30: for every description, with an artist or without, {author} and
\* {artist} are replaced by the same text (checked under SpecName)
C30_AuthorIsArtist ==
    \A j \in JobIds :
        Named(j) =>
            ReplaceVariables(T_author, TemplateVariables(jobs[j].file_info), 1)
                = ReplaceVariables(T_artist, TemplateVariables(jobs[j].file_info), 1)

HasPending(states, u) ==
    u \in DOMAIN states /\ "file_obj" \in DOMAIN states[u]

\* C31: a text message starts a job through the manual entry point only if
\* the sender's session awaits a file name and holds a pending file and the
\* sender is not banned, and the job is for that file; a text that arrives
\* in another mode or without a session starts no job and leaves a pending
\* file where it is (checked under Spec)
C31_TextStep ==
    LET u == last'.user
    IN  (updates' = updates + 1 /\ last'.kind = "text") =>
            /\ started' # started =>
                   /\ ActionOf(user_states, u) = "awaiting_filename"
                   /\ HasPending(user_states, u)
                   /\ ~is_banned(users, u)
                   /\ jobs'[Slot].entry = "manual"
                   /\ jobs'[Slot].file_obj = user_states[u].file_obj
            /\ ActionOf(user_states, u) # "awaiting_filename" =>
                   /\ started' = started
                   /\ jobs' = jobs
                   /\ HasPending(user_states, u) =>
                          /\ HasPending(user_states', u)
                          /\ user_states'[u].file_obj = user_states[u].file_obj

Returns(j) == jobs[j].pc # "returned" /\ jobs'[j].pc = "returned"

\* C32: file_history only grows, by one record for every job that returns
\* success while the storage works and the user id is known, and by none
\* for a job that returns a failure; the records it holds stay as they are.
\* Step by step: the old history is a prefix of the new one, a successful
\* return adds the record of that job, and nothing else adds one (checked
\* under SpecFM)
C32_HistoryStep ==
    /\ Len(file_history') >= Len(file_history)
    /\ SubSeq(file_history', 1, Len(file_history)) = file_history
    /\ \A j \in JobIds :
           Returns(j) =>
               IF jobs'[j].result.success /\ jobs'[j].recording = "ok"
               THEN /\ Len(file_history') = Len(file_history) + 1
                    /\ file_history'[Len(file_history')].user_id
                           = jobs'[j].user_data.user_id
                    /\ file_history'[Len(file_history')].new_name
                           = jobs'[j].result.filename
               ELSE file_history' = file_history
    /\ (\A j \in JobIds : ~Returns(j)) => file_history' = file_history

C32_HistoryCountsSuccesses == [][C32_HistoryStep]_vars

\* the first job succeeded and was recorded, the second one has failed
C32_OneRecordedOneFailed ==
    /\ Len(file_history) = 1
    /\ \E j \in JobIds : /\ jobs[j].pc = "returned"
                          /\ jobs[j].id = 2
                          /\ ~jobs[j].result.success

\* C33: a text sent while the session awaits a template, made of literal
\* text and recognized placeholders only (as every text of SentTexts is),
\* is stored as the sender's custom_format and the session is Idle
\* afterwards (checked under Spec)
C33_FormatStep ==
    LET u == last'.user
    IN  (/\ updates' = updates + 1
         /\ last'.kind = "text"
         /\ ActionOf(user_states, u) = "awaiting_format"
         /\ u \in DOMAIN users
         /\ ~is_banned(users, u))
            => /\ users'[u].custom_format \in SentTexts
               /\ u \notin DOMAIN user_states'

C33_ValidTemplateIsStored == [][C33_FormatStep]_vars

\* the thumbnail user u has saved: the session entry is the one place where
\* handle_thumbnail puts it
HasThumbnail(states, u) ==
    u \in DOMAIN states /\ "thumbnail" \in DOMAIN states[u]

\* C34: when a photo has been handled for a user whose session awaited a
\* thumbnail, the thumbnail is saved for the user and the session no longer
\* awaits one; a photo in any other mode saves nothing and leaves
\* user_states as it is (checked under Spec)
C34_PhotoStep ==
    LET u == last'.user
    IN  (updates' = updates + 1 /\ last'.kind = "photo") =>
            IF ActionOf(user_states, u) = "awaiting_thumbnail" /\ ~is_banned(users, u)
            THEN /\ HasThumbnail(user_states', u)
                 /\ ActionOf(user_states', u) # "awaiting_thumbnail"
            ELSE user_states' = user_states

C34_ThumbnailIsKept == [][C34_PhotoStep]_vars

(***************************************************************************)
(* The admin commands /ban, /unban, /admin and /dump (bot/admin.py) and    *)
(* the storage calls they make (bot/database.py)                           *)
(***************************************************************************)
\* int(text) of a command argument: the number, or ValueError
int(text) ==
    LET digits == IF text # <<>> /\ text[1] \in {"-", "+"} THEN Tail(text) ELSE text
        F[i \in 0..Len(digits)] ==
            IF i = 0 THEN 0
            ELSE 10 * F[i - 1]
                   + (CHOOSE d \in 0..9 : DigitChar[d + 1] = digits[i])
    IN  IF \/ digits = <<>>
           \/ \E i \in 1..Len(digits) : \A d \in 0..9 : DigitChar[d + 1] # digits[i]
        THEN [ok |-> FALSE, value |-> 0]
        ELSE [ok |-> TRUE,
              value |-> IF text[1] = "-" THEN 0 - F[Len(digits)] ELSE F[Len(digits)]]

\* Config.is_owner
is_owner(user_id) == user_id = OWNER_ID

\* Database.is_admin as a handler calls it: when the SELECT raises, the
\* except branch answers False
is_admin_under(table, user_id, lookup) ==
    IF lookup = "read_error" THEN FALSE ELSE is_admin(table, user_id)

\* AdminHandlers.is_authorized with the outcomes of its two lookups
is_authorized_under(table, user_id, admin_lookup, ban_lookup) ==
    /\ is_owner(user_id) \/ is_admin_under(table, user_id, admin_lookup)
    /\ ~is_banned_under(table, user_id, ban_lookup)

\* what the database does during a call of a mutator
MutatorOutcomes == {"ok", "write_error", "connect_error"}

\* the UPDATE of one column of the row of user_id
SetColumn(table, user_id, column, value) ==
    [u \in DOMAIN table |->
        IF u = user_id THEN [table[u] EXCEPT ![column] = value] ELSE table[u]]

\* what a mutator of the users table leaves and returns: after a failing
\* execute the rollback leaves the table and False is returned; otherwise
\* the UPDATE is committed and "return conn.rowcount > 0", the number of
\* rows the WHERE clause met, is evaluated
Mutated(table, user_id, changed, db) ==
    IF db = "write_error"
    THEN [table |-> table, success |-> FALSE]
    ELSE [table |-> changed,
          success |-> "rowcount" \in ConnectionAttributes /\ user_id \in DOMAIN table]

\* Database.ban_user, when the connection opens
ban_user(table, user_id, db) ==
    Mutated(table, user_id, SetColumn(table, user_id, "is_banned", TRUE), db)

\* Database.unban_user, when the connection opens
unban_user(table, user_id, db) ==
    Mutated(table, user_id, SetColumn(table, user_id, "is_banned", FALSE), db)

\* Database.set_admin, when the connection opens
set_admin(table, user_id, flag, db) ==
    Mutated(table, user_id, SetColumn(table, user_id, "is_admin", flag), db)

\* Database.add_dump_channel, when the connection opens: INSERT OR REPLACE
\* gives the channel a new row, whose added_date is the latest
add_dump_channel(channels, channel_id, db) ==
    IF db = "write_error"
    THEN [channels |-> channels, success |-> FALSE]
    ELSE [channels |-> <<channel_id>> \o SelectSeq(channels, LAMBDA c : c # channel_id),
          success |-> TRUE]

\* Database.remove_dump_channel, when the connection opens
remove_dump_channel(channels, channel_id, db) ==
    IF db = "write_error"
    THEN [channels |-> channels, success |-> FALSE]
    ELSE [channels |-> SelectSeq(channels, LAMBDA c : c # channel_id),
          success |-> /\ "rowcount" \in ConnectionAttributes
                      /\ \E k \in 1..Len(channels) : channels[k] = channel_id]

\* ban_command without its two refusals, of the owner and of the issuer
ban_command_sparing_nobody(st, u, args, admin_lookup, ban_lookup, db) ==
    IF ~is_authorized_under(st.users, u, admin_lookup, ban_lookup)
    THEN Say(st, u, "not_authorized")
    ELSE IF args = <<>> THEN Say(st, u, "ban_usage")
    ELSE LET target_user_id == int(args[1])
         IN  IF ~target_user_id.ok THEN Say(st, u, "invalid_user_id")
             ELSE IF db = "connect_error" THEN Say(st, u, "error_banning")
             ELSE LET banned == ban_user(st.users, target_user_id.value, db)
                  IN  Say([st EXCEPT !.users = banned.table], u,
                          IF banned.success THEN "banned" ELSE "ban_failed")

\* AdminHandlers.ban_command
ban_command(st, u, args, admin_lookup, ban_lookup, db) ==
    IF ~is_authorized_under(st.users, u, admin_lookup, ban_lookup)
    THEN Say(st, u, "not_authorized")
    ELSE IF args = <<>> THEN Say(st, u, "ban_usage")
    ELSE LET target_user_id == int(args[1])
         IN  IF ~target_user_id.ok THEN Say(st, u, "invalid_user_id")
             ELSE IF is_owner(target_user_id.value) THEN Say(st, u, "cannot_ban_owner")
             ELSE IF target_user_id.value = u THEN Say(st, u, "cannot_ban_yourself")
             ELSE IF db = "connect_error" THEN Say(st, u, "error_banning")
             ELSE LET banned == ban_user(st.users, target_user_id.value, db)
                  IN  Say([st EXCEPT !.users = banned.table], u,
                          IF banned.success THEN "banned" ELSE "ban_failed")

\* AdminHandlers.unban_command
unban_command(st, u, args, admin_lookup, ban_lookup, db) ==
    IF ~is_authorized_under(st.users, u, admin_lookup, ban_lookup)
    THEN Say(st, u, "not_authorized")
    ELSE IF args = <<>> THEN Say(st, u, "unban_usage")
    ELSE LET target_user_id == int(args[1])
         IN  IF ~target_user_id.ok THEN Say(st, u, "invalid_user_id")
             ELSE IF db = "connect_error" THEN Say(st, u, "error_unbanning")
             ELSE LET unbanned == unban_user(st.users, target_user_id.value, db)
                  IN  Say([st EXCEPT !.users = unbanned.table], u,
                          IF unbanned.success THEN "unbanned" ELSE "unban_failed")

\* AdminHandlers.admin_command
admin_command(st, u, args, db) ==
    IF ~is_owner(u) THEN Say(st, u, "only_owner")
    ELSE IF Len(args) < 2 THEN Say(st, u, "admin_usage")
    ELSE LET action == Lower(args[1])
             target_user_id == int(args[2])
         IN  IF ~target_user_id.ok THEN Say(st, u, "invalid_user_id")
             ELSE IF action = <<"a", "d", "d">>
             THEN IF db = "connect_error" THEN Say(st, u, "error_managing")
                  ELSE LET promoted == set_admin(st.users, target_user_id.value, TRUE, db)
                       IN  Say([st EXCEPT !.users = promoted.table], u,
                               IF promoted.success THEN "promoted" ELSE "promote_failed")
             ELSE IF action = <<"r", "e", "m", "o", "v", "e">>
             THEN IF target_user_id.value = u THEN Say(st, u, "cannot_remove_yourself")
                  ELSE IF db = "connect_error" THEN Say(st, u, "error_managing")
                  ELSE LET demoted == set_admin(st.users, target_user_id.value, FALSE, db)
                       IN  Say([st EXCEPT !.users = demoted.table], u,
                               IF demoted.success THEN "demoted" ELSE "demote_failed")
             ELSE Say(st, u, "invalid_action")

\* what get_chat and get_chat_member tell of the bot in a channel
ChannelAccess == {"administrator", "member", "TelegramError"}

\* AdminHandlers.add_dump_channel
add_dump_channel_command(st, u, channel_id, access, db) ==
    IF access = "TelegramError" THEN Say(st, u, "channel_error")
    ELSE IF access # "administrator" THEN Say(st, u, "bot_must_be_admin")
    ELSE IF db = "connect_error" THEN Say(st, u, "error_adding_channel")
    ELSE LET added == add_dump_channel(st.dump_channels, channel_id, db)
         IN  Say([st EXCEPT !.dump_channels = added.channels], u,
                 IF added.success THEN "channel_added" ELSE "channel_add_failed")

\* AdminHandlers.remove_dump_channel; nothing catches what it raises
remove_dump_channel_command(st, u, channel_id, db) ==
    IF db = "connect_error" THEN ErrorHandler(st, u)
    ELSE LET removed == remove_dump_channel(st.dump_channels, channel_id, db)
         IN  Say([st EXCEPT !.dump_channels = removed.channels], u,
                 IF removed.success THEN "channel_removed" ELSE "channel_remove_failed")

\* AdminHandlers.dump_command
dump_command(st, u, args, admin_lookup, ban_lookup, access, db) ==
    IF ~is_authorized_under(st.users, u, admin_lookup, ban_lookup)
    THEN Say(st, u, "not_authorized")
    ELSE IF args = <<>> THEN Say(st, u, "dump_usage")
    ELSE LET action == Lower(args[1])
         IN  IF action \in {<<"a", "d", "d">>, <<"r", "e", "m", "o", "v", "e">>}
             THEN IF Len(args) < 2 THEN Say(st, u, "provide_channel_id")
                  ELSE LET channel_id == int(args[2])
                       IN  IF ~channel_id.ok THEN Say(st, u, "invalid_channel_id")
                           ELSE IF action = <<"a", "d", "d">>
                           THEN add_dump_channel_command(st, u, channel_id.value, access, db)
                           ELSE remove_dump_channel_command(st, u, channel_id.value, db)
             ELSE IF action = <<"l", "i", "s", "t">>
             THEN IF db = "connect_error" THEN ErrorHandler(st, u)
                  ELSE Say(st, u, IF st.dump_channels = <<>> THEN "no_channels"
                                  ELSE "channel_list")
             ELSE Say(st, u, "invalid_action")

\* the users of the admin commands: the owner, an admin, and an admin who
\* is banned
Staff ==
    [u \in 1..BannedUser |->
        [NewUserRow EXCEPT !.is_admin = (u \in {OWNER_ID + 1, BannedUser}),
                           !.is_banned = (u = BannedUser)]]

S_add == <<"a", "d", "d">>

S_remove == <<"r", "e", "m", "o", "v", "e">>

S_list == <<"l", "i", "s", "t">>

\* the user ids an issuer types: those of the users, one with a leading
\* zero, and one that is no number
TargetTexts ==
    {IntToStr(u) : u \in DOMAIN Staff} \cup {<<"0", "2">>, <<"x">>}

\* the channel ids an issuer types
ChannelTexts == {<<"1">>, <<"2">>, <<"x">>}

\* is_authorized looks up is_admin for an issuer who is not the owner
AdminLookups(u) == IF is_owner(u) THEN {"ok"} ELSE LookupOutcomes

\* /dump asks Telegram about the channel it is to add
ChannelAccessOf(args) ==
    IF Len(args) = 2 /\ args[1] = S_add THEN ChannelAccess ELSE {"administrator"}

\* /ban from user u
BanCommand(u) ==
    /\ TakeUpdate
    /\ \E args \in {<<>>} \cup {<<t>> : t \in TargetTexts}, admin_lookup \in AdminLookups(u), ban_lookup \in LookupOutcomes, db \in MutatorOutcomes :
          Commit(ban_command(Update(u, "ban"), u, args, admin_lookup, ban_lookup, db))

\* /unban from user u
UnbanCommand(u) ==
    /\ TakeUpdate
    /\ \E args \in {<<>>} \cup {<<t>> : t \in TargetTexts}, admin_lookup \in AdminLookups(u), ban_lookup \in LookupOutcomes, db \in MutatorOutcomes :
          Commit(unban_command(Update(u, "unban"), u, args, admin_lookup, ban_lookup, db))

\* /admin from user u
AdminCommand(u) ==
    /\ TakeUpdate
    /\ \E args \in {<<S_add>>} \cup ({S_add, <<"R", "e", "m", "o", "v", "e">>, S_list} \X TargetTexts), db \in MutatorOutcomes :
          Commit(admin_command(Update(u, "admin"), u, args, db))

\* /dump from user u
DumpCommand(u) ==
    /\ TakeUpdate
    /\ \E args \in {<<>>, <<S_list>>, <<S_add>>} \cup ({S_add, S_remove} \X ChannelTexts) :
       \E admin_lookup \in AdminLookups(u), ban_lookup \in LookupOutcomes, access \in ChannelAccessOf(args), db \in MutatorOutcomes :
          Commit(dump_command(Update(u, "dump"), u, args, admin_lookup, ban_lookup, access, db))

InitCmd == InitWith({Staff})

\* how many admin commands are issued
MaxCommands == 2

\* an admin command of user u arrives
IssueCommand(u) ==
    /\ updates < MaxCommands
    /\ \/ BanCommand(u)
       \/ UnbanCommand(u)
       \/ AdminCommand(u)
       \/ DumpCommand(u)
       \/ BroadcastCommand(u)

NextCmd ==
    \/ \E u \in DOMAIN Staff : IssueCommand(u)
    \/ Announce
    \/ SendMessage
    \/ Sleep
    \/ Report

\* the admins' conversation: any sequence of admin commands
SpecCmd == InitCmd /\ [][NextCmd]_vars


(***************************************************************************)
(* Claims C35 - C37, on the admin commands                                 *)
(***************************************************************************)
\* the issuer is the owner or an admin and is not banned, by the tables
Entitled(u) == (is_owner(u) \/ is_admin(users, u)) /\ ~is_banned(users, u)

\* what the admin commands act on is as it was
NoEffect ==
    /\ users' = users
    /\ dump_channels' = dump_channels
    /\ dispatch' = dispatch
    /\ outbox' = outbox

\* C35: a /ban, /unban, /dump or /broadcast of an issuer who is not the
\* owner or an admin, or who is banned when the command is handled, changes
\* no table and starts no dispatch; an /admin of an issuer who is not the
\* owner changes no table (checked under SpecCmd)
C35_CommandStep ==
    LET u == last'.user
    IN  updates' = updates + 1 =>
           /\ (last'.kind \in {"ban", "unban", "dump", "command"} /\ ~Entitled(u))
                 => NoEffect
           /\ (last'.kind = "admin" /\ ~is_owner(u)) => NoEffect

C35_OnlyStaffTakeEffect == [][C35_CommandStep]_vars

\* C36: after any admin command the owner is not banned; a /ban leaves the
\* ban flag of its issuer as it was; an /admin of the owner leaves the
\* owner an admin if they were one, and entitled to the admin commands
\* (checked under SpecCmd)
C36_SparedStep ==
    LET u == last'.user
    IN  updates' = updates + 1 =>
           /\ ~is_banned(users', OWNER_ID)
           /\ last'.kind = "ban" => is_banned(users', u) = is_banned(users, u)
           /\ (last'.kind = "admin" /\ is_owner(u)) =>
                 /\ is_admin(users, u) => is_admin(users', u)
                 /\ is_authorized(users', u)

C36_OwnerAndIssuerAreSpared == [][C36_SparedStep]_vars

\* an admin has asked to ban the owner
C36_BanOfOwnerRefused ==
    /\ last.kind = "ban"
    /\ last.user # OWNER_ID
    /\ last.reply = "cannot_ban_owner"
    /\ is_admin(users, last.user)

\* what a command replies when its mutator returned False
CommandFailures ==
    {"ban_failed", "unban_failed", "promote_failed", "demote_failed",
     "channel_remove_failed"}

\* C37: when ban_user, unban_user, set_admin or remove_dump_channel has
\* returned False and the command has reported the failure, the tables are
\* as they were (checked under SpecCmd)
C37_MutatorStep ==
    (updates' = updates + 1 /\ last'.reply \in CommandFailures) =>
        (users' = users /\ dump_channels' = dump_channels)

C37_FalseMeansUnchanged == [][C37_MutatorStep]_vars

(***************************************************************************)
(* The download of a large file and its progress task                      *)
(* (FileManager.download_file, download_progress)                          *)
(***************************************************************************)
\* an upload above the threshold of the progress task
LargeUpload == [TaggedAudio EXCEPT !.file_size = ProgressThreshold + 1]

\* how many progress reports a progress task is followed for
MaxReports == 2

\* what os.path.exists and os.path.getsize find at file_path: nothing, less
\* than the whole file, or the whole file
SizesSeen(job) ==
    IF job.file_path \in DOMAIN fs
    THEN IF job.download = "ok" THEN {"all"} ELSE {"less"}
    ELSE IF job.pc = "download_to_drive" THEN {"absent", "less", "all"}
    ELSE {"absent"}

\* download_progress from the test of its loop to its next await
ReporterLoop(job, seen) ==
    IF job.downloaded_size = "all" THEN [job EXCEPT !.reporter = "ended"]
    ELSE IF seen = "absent" THEN job
    ELSE [job EXCEPT !.downloaded_size = seen, !.reporter = "callback",
                     !.reports = @ + 1]

\* download_progress after "await progress_callback(...)" returned or raised
ReporterAfterCallback(job, edit) ==
    IF update_progress(edit) = "raise"
    THEN [job EXCEPT !.reporter = "ended"]
    ELSE [job EXCEPT !.reporter = "loop"]

\* the event loop resumes the progress task of job j
DownloadProgress(j) ==
    /\ jobs[j].reporter \in ReporterRuns
    /\ jobs[j].reports < MaxReports
    /\ \/ /\ jobs[j].reporter = "loop"
          /\ \E seen \in SizesSeen(jobs[j]) :
                jobs' = [jobs EXCEPT ![j] = ReporterLoop(@, seen)]
       \/ /\ jobs[j].reporter = "callback"
          /\ \E edit \in SinkOutcomes :
                jobs' = [jobs EXCEPT ![j] = ReporterAfterCallback(@, edit)]
    /\ UNCHANGED <<now, ticks, started, fs, file_history, users, user_states,
                   processing_files, rate_limits, updates, chat, last,
                   admin_states, dispatch, outbox, dump_channels, fanout,
                   windows>>

NextDL ==
    \/ \E j \in JobIds : CallProcessFileOf(j, {LargeUpload})
    \/ \E j \in JobIds : ProgressCallback(j)
    \/ \E j \in JobIds : GetFile(j)
    \/ \E j \in JobIds : DownloadToDrive(j)
    \/ \E j \in JobIds : DownloadProgress(j)

\* FileManager.process_file called for a large file; the caller keeps the
\* result
SpecDL == InitFM /\ [][NextDL]_vars

\* download_file of job j has returned, with a path or with None
DownloadReturned(j) == jobs[j].download # "none"

\* C40: once download_file of a large file has returned, its progress task
\* is not running any more: it has been cancelled or has ended (checked
\* under SpecDL)
C40_ReporterStopped ==
    \A j \in JobIds :
        (jobs[j].file_obj.file_size > ProgressThreshold /\ DownloadReturned(j))
            => jobs[j].reporter \notin ReporterRuns

(***************************************************************************)
(* Two jobs in flight: FileManager.process_file called again while a call  *)
(* is at one of its awaits.  The application takes one update at a time,   *)
(* so it is a caller that runs jobs side by side, as the scheduling of     *)
(* many jobs in flight does, that reaches these states.                    *)
(***************************************************************************)
\* the coroutines of the two calls
Callers == {1, 2}

InitPair ==
    /\ now = 0
    /\ ticks = 0
    /\ fs = InitialDirectory
    /\ jobs = [j \in Callers |-> InitialJob]
    /\ started = 0
    /\ file_history = <<>>
    /\ users = [u \in {} |-> 0]
    /\ user_states = [u \in {} |-> 0]
    /\ processing_files = [u \in {} |-> 0]
    /\ rate_limits = [u \in {} |-> 0]
    /\ updates = 0
    /\ chat = [u \in Users |-> NoChat]
    /\ last = NoUpdate
    /\ admin_states = [u \in {} |-> 0]
    /\ dispatch = NoDispatch
    /\ outbox = <<>>
    /\ dump_channels = <<>>
    /\ fanout = NoFanout
    /\ windows = [u \in {} |-> 0]

NextPair ==
    \/ \E j \in Callers : CallProcessFileOf(j, {TaggedAudio})
    \/ \E j \in Callers : ProgressCallback(j)
    \/ \E j \in Callers : GetFile(j)
    \/ \E j \in Callers : DownloadToDrive(j)
    \/ Tick

SpecPair == InitPair /\ [][NextPair]_vars

\* job j is between its call and its return
InFlight(j) == jobs[j].pc \notin {"idle", "returned"}

\* the file job j works on: the renamed file, or the downloaded one
WorkingPath(j) ==
    IF jobs[j].renamed_path # <<>> THEN jobs[j].renamed_path ELSE jobs[j].file_path

ManualUsers == {[u \in Users |-> [NewUserRow EXCEPT !.rename_mode = "manual"]]}

\* handle_manual_filename from its try block on: the text is the name for
\* the pending file of user u
StartManualJob(u) ==
    /\ TakeUpdate
    /\ started < MaxJobs
    /\ HasPending(user_states, u)
    /\ get_user(users, u) # NoUserData
    /\ \E filename \in CustomNames, reply \in ApiOutcomes :
          Commit(StartJob(Update(u, "text"), Slot, u, "manual",
                          user_states[u].file_obj, filename,
                          get_user(users, u), reply))

\* an update is taken while a job is in flight
TakeUpdateMeanwhile ==
    /\ ~NoJobInFlight
    /\ updates < MaxUpdates
    /\ updates' = updates + 1
    /\ UNCHANGED <<now, ticks>>

\* /clear from user u while a job is in flight
ClearMeanwhile(u) ==
    /\ TakeUpdateMeanwhile
    /\ Commit(clear_command(Update(u, "command"), u))

\* a file from user u while a job is in flight; the file is kept for its
\* name and starts no second job
FileMeanwhile(u) ==
    /\ TakeUpdateMeanwhile
    /\ \E file_obj \in SentFiles, reply \in ApiOutcomes, db \in StorageOutcomes :
          LET handled == handle_file(Update(u, "file"), Slot, u, file_obj, reply, db, "ok")
          IN  handled.started = started /\ Commit(handled)

NextOverlap ==
    \/ \E u \in Users : HandleFile(u)
    \/ \E u \in Users : StartManualJob(u)
    \/ \E u \in Users : ClearMeanwhile(u)
    \/ \E u \in Users : FileMeanwhile(u)
    \/ \E j \in JobIds : ProgressCallback(j)
    \/ \E j \in JobIds : GetFile(j)
    \/ \E j \in JobIds : DownloadToDrive(j)
    \/ \E j \in JobIds : ConsumeResult(j)

SpecOverlap == InitWith(ManualUsers) /\ [][NextOverlap]_vars

\* the last update handled was a file of user u, and it is kept for its name
StoredLast(u) ==
    /\ last.user = u
    /\ last.kind = "file"
    /\ last.reply = "send_filename"
    /\ HasPending(user_states, u)

\* C39: when the handler of a job ends, a pending file that the job's user
\* has sent after the job started is still in the session (checked under
\* SpecOverlap)
C39_CompletionStep ==
    \A j \in JobIds :
        LET u == jobs[j].user
        IN  (/\ jobs[j].pc = "returned"
             /\ jobs'[j].pc = "idle"
             /\ StoredLast(u))
                => (HasPending(user_states', u) /\ user_states'[u] = user_states[u])

=============================================================================
